---- MODULE Spec2Model ----
(***************************************************************************)
(* A model of rlox, a tree-walking interpreter for Lox: the run pipeline   *)
(* (tokens -> declarations -> resolver -> evaluator), the resolver's scope *)
(* stack and static checks, the environment chain, and the evaluator with  *)
(* closures, classes, instances, bound methods and super.                  *)
(*                                                                         *)
(* Heap records (Rc<RefCell<Environment>>, Rc<RefCell<Instance>>) are      *)
(* cells of the sequences envs and insts, addressed by index; an index is  *)
(* the identity of the record and 0 is the absent reference (None).  An    *)
(* Option<T> is a sequence of length 0 or 1.  A resolvable syntax node     *)
(* carries an id, the identity of its Cell<Option<usize>>; the variable    *)
(* dist holds the contents of the cells that were set.                     *)
(***************************************************************************)
EXTENDS Integers, Sequences, FiniteSets, TLC

None == <<>>
Some(x) == <<x>>
is_some(o) == Len(o) = 1
unwrap(o) == o[1]
EmptyMap == [x \in {} |-> x]

(***************************************************************************)
(* Tokens and syntax trees                                                 *)
(***************************************************************************)
Token(ty, lexeme, line) == [token_type |-> ty, lexeme |-> lexeme, line |-> line]

ELiteral(v) == [k |-> "Literal", value |-> v]
EGrouping(e) == [k |-> "Grouping", expr |-> e]
EUnary(op, e) == [k |-> "Unary", op |-> op, expr |-> e]
EBinary(l, op, r) == [k |-> "Binary", left |-> l, op |-> op, right |-> r]
ELogical(l, op, r) == [k |-> "Logical", left |-> l, op |-> op, right |-> r]
ECall(callee, paren, args) ==
    [k |-> "Call", callee |-> callee, paren |-> paren, args |-> args]
Variable(id, name) == [k |-> "Variable", name |-> name, id |-> id]
Assign(id, name, value) ==
    [k |-> "Assign", name |-> name, value |-> value, id |-> id]
Get(object, name) == [k |-> "Get", object |-> object, name |-> name]
Set(object, name, value) ==
    [k |-> "Set", object |-> object, name |-> name, value |-> value]
This(id, token) == [k |-> "This", name |-> token, id |-> id]
Super(id, keyword, method) ==
    [k |-> "Super", name |-> keyword, method |-> method, id |-> id]

SExpression(e) == [k |-> "Expression", expr |-> e]
SPrint(e) == [k |-> "Print", expr |-> e]
SVar(name, init) == [k |-> "Var", name |-> name, init |-> init]
SBlock(stmts) == [k |-> "Block", stmts |-> stmts]
SIf(cond, then, else) ==
    [k |-> "IfStmt", cond |-> cond, then |-> then, else |-> else]
SWhile(cond, body) == [k |-> "WhileStmt", cond |-> cond, body |-> body]
FnStmt(name, params, body) ==
    [k |-> "Function", name |-> name, params |-> params, body |-> body]
SReturn(keyword, value) == [k |-> "Return", keyword |-> keyword, value |-> value]
ClassStmt(name, superclass, methods) ==
    [k |-> "Class", name |-> name, superclass |-> superclass, methods |-> methods]

(***************************************************************************)
(* Runtime values (Literal)                                                *)
(***************************************************************************)
Nil == [t |-> "Nil"]
Number(n) == [t |-> "Number", v |-> n]
String(s) == [t |-> "String", v |-> s]
Boolean(b) == [t |-> "Boolean", v |-> b]
Func(decl, closure, is_initializer) ==
    [t |-> "Function", decl |-> decl, closure |-> closure,
     is_initializer |-> is_initializer]
NativeFunc(name, arity) == [t |-> "Native", name |-> name, arity |-> arity]
Class(name, methods, superclass) ==
    [t |-> "Class", name |-> name, methods |-> methods, superclass |-> superclass]
Instance(ref) == [t |-> "Instance", ref |-> ref]

is_truthy(v) ==
    CASE v.t = "Nil" -> FALSE
      [] v.t = "Boolean" -> v.v
      [] OTHER -> TRUE

(***************************************************************************)
(* Environment (environment.rs).  Operations take the heap of environments *)
(* and the index of the environment they are called on.                    *)
(***************************************************************************)
Environment(enclosing) == [values |-> EmptyMap, enclosing |-> enclosing]

Ok(v) == [ok |-> TRUE, v |-> v]
Err(e) == [ok |-> FALSE, v |-> e]

\* The environment of the chain starting at e that get and assign act on:
\* the first one holding name, 0 when none does.
RECURSIVE holder(_, _, _)
holder(envs, e, name) ==
    IF name \in DOMAIN envs[e].values THEN e
    ELSE IF envs[e].enclosing = 0 THEN 0
    ELSE holder(envs, envs[e].enclosing, name)

RECURSIVE ancestor(_, _, _)
ancestor(envs, e, distance) ==
    IF distance = 0 THEN e
    ELSE IF envs[e].enclosing = 0 THEN 0
    ELSE ancestor(envs, envs[e].enclosing, distance - 1)

define(envs, e, name, value) ==
    [envs EXCEPT ![e].values = (name :> value) @@ @]

get(envs, e, name) ==
    LET h == holder(envs, e, name.lexeme)
    IN IF h = 0 THEN Err([kind |-> "UndefinedVariable", token |-> name])
       ELSE Ok(envs[h].values[name.lexeme])

\* As if assigning to a name no environment of the chain holds defined it.
assign_or_define(envs, e, name, value) ==
    LET h == holder(envs, e, name.lexeme)
    IN IF h = 0 THEN Ok(define(envs, e, name.lexeme, value))
       ELSE Ok([envs EXCEPT ![h].values[name.lexeme] = value])

\* assign returns the new heap in the result's v.
assign(envs, e, name, value) ==
    LET h == holder(envs, e, name.lexeme)
    IN IF h = 0 THEN Err([kind |-> "UndefinedVariable", token |-> name])
       ELSE Ok([envs EXCEPT ![h].values[name.lexeme] = value])

get_at(envs, e, distance, name) ==
    LET a == ancestor(envs, e, distance)
    IN IF a = 0 THEN Err([kind |-> "InvalidEnvironmentDistance"])
       ELSE get(envs, a, name)

assign_at(envs, e, distance, name, value) ==
    LET a == ancestor(envs, e, distance)
    IN IF a = 0 THEN Err([kind |-> "InvalidEnvironmentDistance"])
       ELSE assign(envs, a, name, value)

(***************************************************************************)
(* Resolver (resolver.rs).  R is the resolver: its scope stack, the kind   *)
(* of the function and class being resolved, the distances set so far on   *)
(* syntax nodes, and the error that ended the pass (a `?` return leaves    *)
(* the rest of R as it was when the error was raised).                     *)
(***************************************************************************)
Resolver_new ==
    [scopes |-> <<>>, cur_func |-> "None", cur_class |-> "None",
     dist |-> EmptyMap, err |-> None]

failed(R) == is_some(R.err)
fail(R, e) == [R EXCEPT !.err = Some(e)]

Last(s) == s[Len(s)]
Front(s) == SubSeq(s, 1, Len(s) - 1)
Max(S) == CHOOSE x \in S : \A y \in S : y <= x

resolve_local(R, node) ==
    LET hits == {i \in 1..Len(R.scopes) : node.name.lexeme \in DOMAIN R.scopes[i]}
    IN IF hits = {} THEN R
       ELSE [R EXCEPT !.dist = (node.id :> (Len(R.scopes) - Max(hits))) @@ @]

begin_scope(R) == [R EXCEPT !.scopes = Append(@, EmptyMap)]
end_scope(R) == [R EXCEPT !.scopes = Front(@)]
scope_insert(R, lexeme, flag) ==
    [R EXCEPT !.scopes[Len(R.scopes)] = (lexeme :> flag) @@ @]

\* As if a name of the current scope could be declared again.
declare_again(R, name) ==
    IF R.scopes = <<>> THEN R ELSE scope_insert(R, name.lexeme, FALSE)

declare(R, name) ==
    IF R.scopes = <<>> THEN R
    ELSE IF name.lexeme \in DOMAIN Last(R.scopes)
         THEN fail(R, [kind |-> "AlreadyDeclared", token |-> name])
    ELSE scope_insert(R, name.lexeme, FALSE)

Resolver_define(R, name) ==
    IF R.scopes = <<>> THEN R ELSE scope_insert(R, name.lexeme, TRUE)

RECURSIVE resolve(_, _)
RECURSIVE resolve_stmt(_, _)
RECURSIVE resolve_expr(_, _)
RECURSIVE resolve_exprs(_, _)
RECURSIVE resolve_params(_, _)
RECURSIVE resolve_function(_, _, _, _)
RECURSIVE resolve_methods(_, _)

resolve(R, stmts) ==
    IF stmts = <<>> THEN R
    ELSE LET R1 == resolve_stmt(R, Head(stmts))
         IN IF failed(R1) THEN R1 ELSE resolve(R1, Tail(stmts))

resolve_exprs(R, exprs) ==
    IF exprs = <<>> THEN R
    ELSE LET R1 == resolve_expr(R, Head(exprs))
         IN IF failed(R1) THEN R1 ELSE resolve_exprs(R1, Tail(exprs))

\* for param in params { declare(param)?; define(param); }
resolve_params(R, params) ==
    IF params = <<>> THEN R
    ELSE LET R1 == declare(R, Head(params))
         IN IF failed(R1) THEN R1
            ELSE resolve_params(Resolver_define(R1, Head(params)), Tail(params))

\* As if the function kind were set on entering a function and never put back.
resolve_function_no_restore(R, params, body, ftype) ==
    LET R1 == begin_scope([R EXCEPT !.cur_func = ftype])
        R2 == resolve_params(R1, params)
        R3 == resolve(R2, body)
    IN IF failed(R2) THEN R2
       ELSE IF failed(R3) THEN R3
       ELSE end_scope(R3)

resolve_function(R, params, body, ftype) ==
    LET prev == R.cur_func
        R1 == begin_scope([R EXCEPT !.cur_func = ftype])
        R2 == resolve_params(R1, params)
        R3 == resolve(R2, body)
    IN IF failed(R2) THEN R2
       ELSE IF failed(R3) THEN R3
       ELSE [end_scope(R3) EXCEPT !.cur_func = prev]

Resolver_visit_block(R, stmts) ==
    LET R1 == resolve(begin_scope(R), stmts)
    IN IF failed(R1) THEN R1 ELSE end_scope(R1)

Resolver_visit_function(R, name, params, body) ==
    LET R1 == declare(R, name)
    IN IF failed(R1) THEN R1
       ELSE resolve_function(Resolver_define(R1, name), params, body, "Function")

Resolver_visit_if(R, cond, then, else) ==
    LET R1 == resolve_expr(R, cond)
        R2 == resolve_stmt(R1, then)
    IN IF failed(R1) THEN R1
       ELSE IF failed(R2) THEN R2
       ELSE IF is_some(else) THEN resolve_stmt(R2, unwrap(else))
       ELSE R2

Resolver_visit_return(R, ret, expr) ==
    IF R.cur_func = "None"
    THEN fail(R, [kind |-> "ReturnFromTopLevel", token |-> ret])
    ELSE IF is_some(expr)
         THEN IF R.cur_func = "Initializer"
              THEN fail(R, [kind |-> "ReturnFromInitializer", line |-> ret.line])
              ELSE resolve_expr(R, unwrap(expr))
    ELSE R

\* As if the variable were marked defined before its initializer is resolved.
Resolver_visit_var_defined_first(R, token, expr) ==
    LET R1 == declare(R, token)
        R2 == IF is_some(expr) THEN resolve_expr(Resolver_define(R1, token), unwrap(expr))
              ELSE R1
    IN IF failed(R1) THEN R1
       ELSE IF failed(R2) THEN R2
       ELSE Resolver_define(R2, token)

Resolver_visit_var(R, token, expr) ==
    LET R1 == declare(R, token)
        R2 == IF is_some(expr) THEN resolve_expr(R1, unwrap(expr)) ELSE R1
    IN IF failed(R1) THEN R1
       ELSE IF failed(R2) THEN R2
       ELSE Resolver_define(R2, token)

Resolver_visit_while(R, cond, body) ==
    LET R1 == resolve_expr(R, cond)
    IN IF failed(R1) THEN R1 ELSE resolve_stmt(R1, body)

resolve_methods(R, methods) ==
    IF methods = <<>> THEN R
    ELSE LET m == Head(methods)
             ftype == IF m.name.lexeme = "init" THEN "Initializer" ELSE "Method"
             R1 == resolve_function(R, m.params, m.body, ftype)
         IN IF failed(R1) THEN R1 ELSE resolve_methods(R1, Tail(methods))

\* As if the class state were set on entering a class and never put back.
Resolver_visit_class_no_restore(R, class) ==
    LET R1 == declare([R EXCEPT !.cur_class = "Class"], class.name)
        R2 == Resolver_define(R1, class.name)
        has_super == is_some(class.superclass)
        R3 == IF has_super THEN resolve_expr(R2, unwrap(class.superclass)) ELSE R2
        R4 == IF has_super
              THEN scope_insert(begin_scope(R3), "super", TRUE)
              ELSE R3
        R5 == scope_insert(begin_scope(R4), "this", TRUE)
        R6 == resolve_methods(R5, class.methods)
        R7 == end_scope(R6)
    IN IF failed(R1) THEN R1
       ELSE IF has_super /\ unwrap(class.superclass).name.lexeme = class.name.lexeme
            THEN fail(R2, [kind |-> "InheritFromSelf", token |-> class.name])
       ELSE IF failed(R3) THEN R3
       ELSE IF failed(R6) THEN R6
       ELSE IF has_super THEN end_scope(R7) ELSE R7

Resolver_visit_class(R, class) ==
    LET enclosing_class == R.cur_class
        R1 == declare([R EXCEPT !.cur_class = "Class"], class.name)
        R2 == Resolver_define(R1, class.name)
        has_super == is_some(class.superclass)
        R3 == IF has_super THEN resolve_expr(R2, unwrap(class.superclass)) ELSE R2
        R4 == IF has_super
              THEN scope_insert(begin_scope(R3), "super", TRUE)
              ELSE R3
        R5 == scope_insert(begin_scope(R4), "this", TRUE)
        R6 == resolve_methods(R5, class.methods)
        R7 == end_scope(R6)
        R8 == IF has_super THEN end_scope(R7) ELSE R7
    IN IF failed(R1) THEN R1
       ELSE IF has_super /\ unwrap(class.superclass).name.lexeme = class.name.lexeme
            THEN fail(R2, [kind |-> "InheritFromSelf", token |-> class.name])
       ELSE IF failed(R3) THEN R3
       ELSE IF failed(R6) THEN R6
       ELSE [R8 EXCEPT !.cur_class = enclosing_class]

resolve_stmt(R, stmt) ==
    CASE stmt.k = "Expression" -> resolve_expr(R, stmt.expr)
      [] stmt.k = "Print" -> resolve_expr(R, stmt.expr)
      [] stmt.k = "Var" -> Resolver_visit_var(R, stmt.name, stmt.init)
      [] stmt.k = "Block" -> Resolver_visit_block(R, stmt.stmts)
      [] stmt.k = "IfStmt" -> Resolver_visit_if(R, stmt.cond, stmt.then, stmt.else)
      [] stmt.k = "WhileStmt" -> Resolver_visit_while(R, stmt.cond, stmt.body)
      [] stmt.k = "Function" ->
            Resolver_visit_function(R, stmt.name, stmt.params, stmt.body)
      [] stmt.k = "Return" -> Resolver_visit_return(R, stmt.keyword, stmt.value)
      [] stmt.k = "Class" -> Resolver_visit_class(R, stmt)

Resolver_visit_variable(R, variable) ==
    IF /\ R.scopes # <<>>
       /\ variable.name.lexeme \in DOMAIN Last(R.scopes)
       /\ ~Last(R.scopes)[variable.name.lexeme]
    THEN fail(R, [kind |-> "NotInitialized", token |-> variable.name])
    ELSE resolve_local(R, variable)

Resolver_visit_assign(R, assign_) ==
    LET R1 == resolve_expr(R, assign_.value)
    IN IF failed(R1) THEN R1 ELSE resolve_local(R1, assign_)

Resolver_visit_this(R, this) ==
    IF R.cur_class = "None"
    THEN fail(R, [kind |-> "InvalidThis", token |-> this.name])
    ELSE resolve_local(R, this)

Resolver_visit_super(R, s) == resolve_local(R, s)

resolve_expr(R, expr) ==
    CASE expr.k = "Binary" -> resolve_exprs(R, <<expr.left, expr.right>>)
      [] expr.k = "Grouping" -> resolve_expr(R, expr.expr)
      [] expr.k = "Literal" -> R
      [] expr.k = "Unary" -> resolve_expr(R, expr.expr)
      [] expr.k = "Variable" -> Resolver_visit_variable(R, expr)
      [] expr.k = "Assign" -> Resolver_visit_assign(R, expr)
      [] expr.k = "Logical" -> resolve_exprs(R, <<expr.left, expr.right>>)
      [] expr.k = "Call" -> resolve_exprs(R, <<expr.callee>> \o expr.args)
      [] expr.k = "Get" -> resolve_expr(R, expr.object)
      [] expr.k = "Set" -> resolve_exprs(R, <<expr.value, expr.object>>)
      [] expr.k = "This" -> Resolver_visit_this(R, expr)
      [] expr.k = "Super" -> Resolver_visit_super(R, expr)

(***************************************************************************)
(* State of a run.                                                         *)
(*   prog    the source handed to run: the outcome of scan_tokens and the  *)
(*           declarations parse() returns (None for a failed declaration)  *)
(*   pc      the position in run / interpret                               *)
(*   stmts   the statements collected from the parser's result             *)
(*   ip      the index of the next statement of interpret's loop           *)
(*   dist    the distances the resolver has set on syntax nodes            *)
(*   rerr    the error the resolver returned, if any                       *)
(*   interp  the Interpreter with the heap it refers to; out is what has   *)
(*           been printed, trace the record of lookups, calls and binds    *)
(*   stdin   the lines run_prompt has still to read                        *)
(*   status  the exit status of the process, None while it runs            *)
(*   scanner the Tokenizer while scan_tokens runs, one turn of its loop    *)
(*           per step; None where scanning is one step                     *)
(*   parser  the tokens, the Parser and the statements parse() has pushed, *)
(*           one turn of its loop per step; None where parsing is one step *)
(***************************************************************************)
VARIABLES prog, pc, stmts, ip, dist, rerr, interp, stdin, status, scanner, parser
vars == <<prog, pc, stmts, ip, dist, rerr, interp, stdin, status, scanner, parser>>

(***************************************************************************)
(* Values: literal.rs                                                      *)
(***************************************************************************)
IsCallable(v) == v.t \in {"Function", "Native", "Class"}

\* Class::get_method as literal.rs has it: the class's own table.
methods_get(class, name) ==
    IF name \in DOMAIN class.methods THEN Some(class.methods[name]) ELSE None

\* Class::get_method of a class that has the superclass interpreter.rs gives
\* it: the own table, then the superclass's.
RECURSIVE get_method(_, _)
get_method(class, name) ==
    IF is_some(methods_get(class, name)) THEN methods_get(class, name)
    ELSE IF is_some(class.superclass)
         THEN get_method(unwrap(class.superclass), name)
    ELSE None

Display(I, v) ==
    CASE v.t = "Nil" -> "nil"
      [] v.t = "Boolean" -> IF v.v THEN "true" ELSE "false"
      [] v.t = "Number" -> ToString(v.v)
      [] v.t = "String" -> v.v
      [] v.t = "Function" -> "function " \o v.decl.name.lexeme
      [] v.t = "Native" -> "native function " \o v.name
      [] v.t = "Class" -> v.name
      [] v.t = "Instance" -> I.insts[v.ref].class.name \o " instance"

\* As if bind stored this in the method's own closure and returned the method.
bind_in_place(I, f, instance) ==
    LET envrionment == define(I.envs, f.closure, "this", Instance(instance))
    IN [I |-> [I EXCEPT !.envs = envrionment,
                        !.trace = Append(@, [ev |-> "bind", method |-> f,
                                             env |-> f.closure, instance |-> instance,
                                             before |-> I.envs[f.closure],
                                             after |-> envrionment[f.closure]])],
        v |-> f]

\* The is_initializer of a bound function (a field interpreter.rs gives Func and
\* literal.rs does not have yet): the method's.
bound_is_initializer(f) == f.is_initializer

\* Func::bind: a fresh environment enclosing the method's closure, holding this.
\* Logged with the closure's contents before and after.
bind(I, f, instance) ==
    LET e == Len(I.envs) + 1
        envrionment == define(Append(I.envs, Environment(f.closure)), e,
                              "this", Instance(instance))
    IN [I |-> [I EXCEPT !.envs = envrionment,
                        !.trace = Append(@, [ev |-> "bind", method |-> f,
                                             env |-> e, instance |-> instance,
                                             before |-> I.envs[f.closure],
                                             after |-> envrionment[f.closure]])],
        v |-> Func(f.decl, e, bound_is_initializer(f))]

\* As if a method of the class came before a field of the instance.
Instance_get_method_first(I, name, instance) ==
    LET inst == I.insts[instance]
        m == get_method(inst.class, name.lexeme)
    IN IF is_some(m)
       THEN LET b == bind(I, unwrap(m), instance)
            IN [I |-> b.I, v |-> Some(b.v)]
       ELSE IF name.lexeme \in DOMAIN inst.fields
            THEN [I |-> I, v |-> Some(inst.fields[name.lexeme])]
       ELSE [I |-> I, v |-> None]

\* Instance::get: the field, else the class's method bound to the instance.
Instance_get(I, name, instance) ==
    LET inst == I.insts[instance]
        m == get_method(inst.class, name.lexeme)
    IN IF name.lexeme \in DOMAIN inst.fields
       THEN [I |-> I, v |-> Some(inst.fields[name.lexeme])]
       ELSE IF ~is_some(m) THEN [I |-> I, v |-> None]
       ELSE LET b == bind(I, unwrap(m), instance)
            IN [I |-> b.I, v |-> Some(b.v)]

Instance_set(I, instance, name, value) ==
    [I EXCEPT !.insts[instance].fields = (name :> value) @@ @]

\* The derived PartialEq of Literal: Func compares its declaration, an
\* instance reference compares the records it refers to.
RECURSIVE is_equal(_, _, _)
is_equal(I, a, b) ==
    IF a.t # b.t THEN FALSE
    ELSE CASE a.t = "Nil" -> TRUE
           [] a.t \in {"Number", "String", "Boolean"} -> a.v = b.v
           [] a.t = "Function" -> a.decl = b.decl
           [] a.t = "Native" -> a.name = b.name /\ a.arity = b.arity
           [] a.t = "Class" ->
                /\ a.name = b.name
                /\ DOMAIN a.methods = DOMAIN b.methods
                /\ \A m \in DOMAIN a.methods :
                       is_equal(I, a.methods[m], b.methods[m])
                /\ is_some(a.superclass) = is_some(b.superclass)
                /\ is_some(a.superclass) =>
                       is_equal(I, unwrap(a.superclass), unwrap(b.superclass))
           [] a.t = "Instance" ->
                LET x == I.insts[a.ref]
                    y == I.insts[b.ref]
                IN /\ is_equal(I, x.class, y.class)
                   /\ DOMAIN x.fields = DOMAIN y.fields
                   /\ \A f \in DOMAIN x.fields :
                          is_equal(I, x.fields[f], y.fields[f])

(***************************************************************************)
(* Interpreter (interpreter.rs).  Every visit returns the interpreter it   *)
(* leaves behind and a VisitorResult: ok with a value, or an error, the    *)
(* Return signal being the error ReturnValue.                              *)
(***************************************************************************)
Interpreter_default ==
    [global |-> 1, environment |-> 1,
     envs |-> <<[values |-> ("clock" :> NativeFunc("clock", 0)), enclosing |-> 0]>>,
     insts |-> <<>>, out |-> <<>>, trace |-> <<>>, now |-> 0]

VOk(I, v) == [I |-> I, ok |-> TRUE, v |-> v]
VErr(I, e) == [I |-> I, ok |-> FALSE, v |-> e]
ReturnValue(v) == [kind |-> "ReturnValue", value |-> v]
ThisToken(line) == Token("THIS", "this", line)

get_dist(node) == IF node.id \in DOMAIN dist THEN Some(dist[node.id]) ELSE None

\* Dynamic scoping: the name is searched from the current environment outwards,
\* whatever the resolver recorded.
look_up_variable_dynamic(I, variable) ==
    LET r == get(I.envs, I.environment, variable.name)
        read == [ev |-> "lookup", id |-> variable.id, dist |-> get_dist(variable),
                 environment |-> I.environment, from |-> I.environment,
                 holder |-> holder(I.envs, I.environment, variable.name.lexeme)]
    IN [I |-> [I EXCEPT !.trace = Append(@, read)], ok |-> r.ok, v |-> r.v]

\* The read is logged: the current environment, the environment the search
\* started from and the one that held the name (0: none).
look_up_variable(I, variable) ==
    LET d == get_dist(variable)
        from == IF is_some(d) THEN ancestor(I.envs, I.environment, unwrap(d))
                ELSE I.global
        r == IF is_some(d)
             THEN get_at(I.envs, I.environment, unwrap(d), variable.name)
             ELSE get(I.envs, I.global, variable.name)
        read == [ev |-> "lookup", id |-> variable.id, dist |-> d,
                 environment |-> I.environment, from |-> from,
                 holder |-> IF from = 0 THEN 0
                            ELSE holder(I.envs, from, variable.name.lexeme)]
    IN [I |-> [I EXCEPT !.trace = Append(@, read)], ok |-> r.ok, v |-> r.v]

arity(f) ==
    CASE f.t = "Function" -> Len(f.decl.params)
      [] f.t = "Native" -> f.arity
      [] f.t = "Class" ->
            LET init == get_method(f, "init")
            IN IF is_some(init) THEN Len(unwrap(init).decl.params) ELSE 0

RECURSIVE evaluate(_, _)
RECURSIVE execute(_, _)
RECURSIVE execute_stmts(_, _)
RECURSIVE execute_block(_, _, _)
RECURSIVE evaluate_args(_, _, _)
RECURSIVE call(_, _, _)
RECURSIVE visit_while(_, _, _)

\* The ? operator: an Err is returned at once, an Ok value goes on.
try(r, then(_)) == IF r.ok THEN then(r) ELSE r

\* The loop of execute_block: the statements in order, up to the first Err.
execute_stmts(I, ss) ==
    IF ss = <<>> THEN VOk(I, Nil)
    ELSE try(execute(I, Head(ss)), LAMBDA r : execute_stmts(r.I, Tail(ss)))

\* As if the previous environment were put back after Ok only.
execute_block_kept_on_error(I, ss, block_env) ==
    try(execute_stmts([I EXCEPT !.envs = Append(@, block_env),
                                !.environment = Len(I.envs) + 1], ss),
        LAMBDA r : [r EXCEPT !.I.environment = I.environment])

\* The previous environment is put back whether the statements end in Ok or Err.
execute_block(I, ss, block_env) ==
    [execute_stmts([I EXCEPT !.envs = Append(@, block_env),
                             !.environment = Len(I.envs) + 1], ss)
        EXCEPT !.I.environment = I.environment]

\* As if call let the Return signal through to its caller.
call_function_result_not_intercepted(I, f, r) ==
    IF r.ok THEN VOk(r.I, Nil) ELSE r

\* As if call treated init like any other function.
call_function_result_plain(I, f, r) ==
    IF r.ok THEN VOk(r.I, Nil)
    ELSE IF r.v.kind = "ReturnValue" THEN VOk(r.I, r.v.value)
    ELSE r

\* The match on execute_block's result in Function::Function(f).call: the
\* Return signal is intercepted, init yields this from its closure.
call_function_result(I, f, r) ==
    LET this == get_at(r.I.envs, f.closure, 0, ThisToken(f.decl.name.line))
    IN IF r.ok
       THEN IF f.is_initializer THEN [I |-> r.I, ok |-> this.ok, v |-> this.v]
            ELSE VOk(r.I, Nil)
       ELSE IF r.v.kind = "ReturnValue"
            THEN IF f.is_initializer
                 THEN [I |-> r.I, ok |-> this.ok, v |-> this.v]
                 ELSE VOk(r.I, r.v.value)
       ELSE r

\* Function::Function(f).call: the parameters bound in a new environment
\* enclosed by the closure, the body run as a block.  Logged with the
\* function, its call environment, how the body ended and the result.
call_function(I, f, args) ==
    LET n == IF Len(args) < Len(f.decl.params) THEN Len(args)
             ELSE Len(f.decl.params)
        func_env == [values |-> [p \in {f.decl.params[i].lexeme : i \in 1..n} |->
                         args[Max({i \in 1..n : f.decl.params[i].lexeme = p})]],
                     enclosing |-> f.closure]
        logged(r, res) ==
            [res EXCEPT !.I.trace =
                Append(@, [ev |-> "call", decl |-> f.decl.name, closure |-> f.closure,
                           is_initializer |-> f.is_initializer,
                           env |-> Len(I.envs) + 1,
                           body |-> [ok |-> r.ok, v |-> r.v],
                           ok |-> res.ok, v |-> res.v])]
        result(r) == logged(r, call_function_result(I, f, r))
    IN result(execute_block(I, f.decl.body, func_env))

\* Function::Class(class).call: a new instance, init bound to it and called.
\* Logged with the instance and what init evaluated to.
call_class(I, class, args) ==
    LET inner == Len(I.insts) + 1
        I1 == [I EXCEPT !.insts = Append(@, [class |-> class, fields |-> EmptyMap])]
        ff == get_method(class, "init")
        constructed(r) ==
            VOk([r.I EXCEPT !.trace =
                    Append(@, [ev |-> "construct", instance |-> inner, init |-> r.v])],
                Instance(inner))
        init(b) == try(call(b.I, b.v, args), constructed)
    IN IF is_some(ff) /\ unwrap(ff).t = "Function"
       THEN init(bind(I1, unwrap(ff), inner))
       ELSE VOk(I1, Instance(inner))

call(I, callee, args) ==
    CASE callee.t = "Function" -> call_function(I, callee, args)
      [] callee.t = "Native" -> VOk(I, Number(I.now))
      [] callee.t = "Class" -> call_class(I, callee, args)

visit_while(I, cond, body) ==
    try(evaluate(I, cond), LAMBDA c :
        IF ~is_truthy(c.v) THEN VOk(c.I, Nil)
        ELSE try(execute(c.I, body), LAMBDA b : visit_while(b.I, cond, body)))

visit_expression(I, expr) ==
    try(evaluate(I, expr), LAMBDA r : VOk(r.I, Nil))

visit_print(I, expr) ==
    try(evaluate(I, expr), LAMBDA r :
        VOk([r.I EXCEPT !.out = Append(@, Display(r.I, r.v))], Nil))

visit_var(I, token, expr) ==
    try(IF is_some(expr) THEN evaluate(I, unwrap(expr)) ELSE VOk(I, Nil), LAMBDA r :
        VOk([r.I EXCEPT !.envs =
                define(r.I.envs, r.I.environment, token.lexeme, r.v)], Nil))

visit_block(I, ss) == execute_block(I, ss, Environment(I.environment))

visit_if(I, cond, then, else) ==
    try(evaluate(I, cond), LAMBDA c :
        IF is_truthy(c.v) THEN execute(c.I, then)
        ELSE IF is_some(else) THEN execute(c.I, unwrap(else))
        ELSE VOk(c.I, Nil))

\* As if a function closed over the globals, whatever environment declares it.
visit_function_global(I, name, params, body) ==
    LET new_func == Func(FnStmt(name, params, body), I.global, FALSE)
    IN VOk([I EXCEPT !.envs = define(I.envs, I.environment, name.lexeme, new_func),
                     !.trace = Append(@, [ev |-> "function", name |-> name,
                                          environment |-> I.environment,
                                          closure |-> new_func.closure])],
           Nil)

\* Logged with the declaring environment and the closure of the new function.
visit_function(I, name, params, body) ==
    LET new_func == Func(FnStmt(name, params, body), I.environment, FALSE)
    IN VOk([I EXCEPT !.envs = define(I.envs, I.environment, name.lexeme, new_func),
                     !.trace = Append(@, [ev |-> "function", name |-> name,
                                          environment |-> I.environment,
                                          closure |-> new_func.closure])],
           Nil)

visit_return(I, token, expr) ==
    try(IF is_some(expr) THEN evaluate(I, unwrap(expr)) ELSE VOk(I, Nil), LAMBDA r :
        VErr(r.I, ReturnValue(r.v)))

\* The method table: later methods of the same name replace earlier ones.
method_table(methods, closure) ==
    [n \in {methods[i].name.lexeme : i \in 1..Len(methods)} |->
        Func(methods[Max({i \in 1..Len(methods) : methods[i].name.lexeme = n})],
             closure, n = "init")]

\* The environment pushed for a class with a superclass stays empty: nothing
\* is defined in it before the methods close over it.
visit_class(I, class) ==
    LET has_super == is_some(class.superclass)
        declared(s) ==
            LET I1 == [s.I EXCEPT !.envs = define(s.I.envs, s.I.environment,
                                                  class.name.lexeme, Nil)]
                I2 == IF has_super
                      THEN [I1 EXCEPT !.envs = Append(@, Environment(I1.environment)),
                                      !.environment = Len(I1.envs) + 1]
                      ELSE I1
                klass == Class(class.name.lexeme,
                               method_table(class.methods, I2.environment),
                               IF has_super THEN Some(s.v) ELSE None)
                I3 == [I2 EXCEPT !.environment = I1.environment]
                a == assign(I3.envs, I3.environment, class.name, klass)
            IN IF has_super /\ s.v.t # "Class"
               THEN VErr(s.I, [kind |-> "SuperclassMustBeAClass",
                               line |-> class.name.line])
               ELSE IF ~a.ok THEN VErr(I3, a.v)
               ELSE VOk([I3 EXCEPT !.envs = a.v], Nil)
    IN try(IF has_super THEN evaluate(I, unwrap(class.superclass)) ELSE VOk(I, Nil),
           declared)

execute(I, stmt) ==
    CASE stmt.k = "Expression" -> visit_expression(I, stmt.expr)
      [] stmt.k = "Print" -> visit_print(I, stmt.expr)
      [] stmt.k = "Var" -> visit_var(I, stmt.name, stmt.init)
      [] stmt.k = "Block" -> visit_block(I, stmt.stmts)
      [] stmt.k = "IfStmt" -> visit_if(I, stmt.cond, stmt.then, stmt.else)
      [] stmt.k = "WhileStmt" -> visit_while(I, stmt.cond, stmt.body)
      [] stmt.k = "Function" -> visit_function(I, stmt.name, stmt.params, stmt.body)
      [] stmt.k = "Return" -> visit_return(I, stmt.keyword, stmt.value)
      [] stmt.k = "Class" -> visit_class(I, stmt)

\* Numbers are integers here; a quotient that is not one is kept as the pair
\* of its operands.
visit_binary(I, token, e1, e2) ==
    try(evaluate(I, e1), LAMBDA l : try(evaluate(l.I, e2), LAMBDA r :
        LET ty == token.token_type
            a == l.v.v
            b == r.v.v
            arithmetic(n(_)) ==
                IF l.v.t = "Number" /\ r.v.t = "Number" THEN VOk(r.I, n(0))
                ELSE VErr(r.I, [kind |-> "ArithmeticError", token |-> token])
        IN CASE ty = "PLUS" -> arithmetic(LAMBDA x : Number(a + b))
             [] ty = "MINUS" -> arithmetic(LAMBDA x : Number(a - b))
             [] ty = "STAR" -> arithmetic(LAMBDA x : Number(a * b))
             [] ty = "SLASH" ->
                    arithmetic(LAMBDA x : IF b # 0 /\ a % b = 0 THEN Number(a \div b)
                                          ELSE Number(<<a, b>>))
             [] ty = "GREATER" -> arithmetic(LAMBDA x : Boolean(a > b))
             [] ty = "GREATER_EQUAL" -> arithmetic(LAMBDA x : Boolean(a >= b))
             [] ty = "LESS" -> arithmetic(LAMBDA x : Boolean(a < b))
             [] ty = "LESS_EQUAL" -> arithmetic(LAMBDA x : Boolean(a <= b))
             [] ty = "BANG_EQUAL" -> VOk(r.I, Boolean(~is_equal(r.I, l.v, r.v)))
             [] ty = "EQUAL_EQUAL" -> VOk(r.I, Boolean(is_equal(r.I, l.v, r.v)))
             [] OTHER -> VErr(r.I, [kind |-> "UnknownOperator", token |-> token])))

visit_unary(I, token, expr) ==
    try(evaluate(I, expr), LAMBDA right :
        CASE token.token_type = "MINUS" ->
                 IF right.v.t = "Number" THEN VOk(right.I, Number(0 - right.v.v))
                 ELSE VErr(right.I, [kind |-> "VistorError"])
          [] token.token_type = "BANG" -> VOk(right.I, Boolean(~is_truthy(right.v)))
          [] OTHER -> VErr(right.I, [kind |-> "UnknownOperator", token |-> token]))

visit_assign(I, assign_) ==
    try(evaluate(I, assign_.value), LAMBDA value :
        LET d == get_dist(assign_)
            a == IF is_some(d)
                 THEN assign_at(value.I.envs, value.I.environment, unwrap(d),
                                assign_.name, value.v)
                 ELSE assign(value.I.envs, value.I.global, assign_.name, value.v)
        IN IF ~a.ok THEN VErr(value.I, a.v)
           ELSE VOk([value.I EXCEPT !.envs = a.v], value.v))

\* As if both operands were evaluated before the operator chooses.
visit_logical_eager(I, left, token, right) ==
    try(evaluate(I, left), LAMBDA l :
        try(evaluate(l.I, right), LAMBDA r :
            CASE token.token_type = "OR" ->
                     IF is_truthy(l.v) THEN VOk(r.I, l.v) ELSE r
              [] token.token_type = "AND" ->
                     IF ~is_truthy(l.v) THEN VOk(r.I, l.v) ELSE r
              [] OTHER -> VErr(l.I, [kind |-> "UnknownOperator", token |-> token])))

visit_logical(I, left, token, right) ==
    try(evaluate(I, left), LAMBDA l :
        CASE token.token_type = "OR" ->
                 IF is_truthy(l.v) THEN l ELSE evaluate(l.I, right)
          [] token.token_type = "AND" ->
                 IF ~is_truthy(l.v) THEN l ELSE evaluate(l.I, right)
          [] OTHER -> VErr(l.I, [kind |-> "UnknownOperator", token |-> token]))

\* The arguments left to right, up to the first Err; v is the list so far.
evaluate_args(I, args, arguments) ==
    IF args = <<>> THEN VOk(I, arguments)
    ELSE try(evaluate(I, Head(args)), LAMBDA r :
             evaluate_args(r.I, Tail(args), Append(arguments, r.v)))

\* As if the number of arguments were not compared with the arity.
visit_call_unchecked(I, callee_, paren, args) ==
    try(evaluate(I, callee_), LAMBDA callee :
        try(evaluate_args(callee.I, args, <<>>), LAMBDA arguments :
            IF ~IsCallable(callee.v) THEN VErr(arguments.I, [kind |-> "VistorError"])
            ELSE call(arguments.I, callee.v, arguments.v)))

visit_call(I, callee_, paren, args) ==
    try(evaluate(I, callee_), LAMBDA callee :
        try(evaluate_args(callee.I, args, <<>>), LAMBDA arguments :
            IF ~IsCallable(callee.v) THEN VErr(arguments.I, [kind |-> "VistorError"])
            ELSE IF Len(arguments.v) # arity(callee.v)
                 THEN VErr(arguments.I,
                           [kind |-> "ArityNotMatched", expected |-> arity(callee.v),
                            got |-> Len(arguments.v), token |-> paren])
            ELSE call(arguments.I, callee.v, arguments.v)))

visit_get(I, get_) ==
    try(evaluate(I, get_.object), LAMBDA x :
        LET found(g) ==
                IF is_some(g.v) THEN VOk(g.I, unwrap(g.v))
                ELSE VErr(x.I, [kind |-> "UndefinedProperty", token |-> get_.name])
        IN IF x.v.t # "Instance" THEN VErr(x.I, [kind |-> "VistorError"])
           ELSE found(Instance_get(x.I, get_.name, x.v.ref)))

visitor_set(I, set_) ==
    try(evaluate(I, set_.object), LAMBDA obj :
        IF obj.v.t # "Instance" THEN VErr(obj.I, [kind |-> "VistorError"])
        ELSE try(evaluate(obj.I, set_.value), LAMBDA value :
                 VOk(Instance_set(value.I, obj.v.ref, set_.name.lexeme, value.v),
                     value.v)))

visit_this(I, token) == look_up_variable(I, token)

\* Logged with the distance and the current environment.
visit_super(I, s) ==
    LET d == get_dist(s)
        seen == [ev |-> "super", id |-> s.id, dist |-> d,
                 environment |-> I.environment]
        I1 == [I EXCEPT !.trace = Append(@, seen)]
        bound(b) == VOk(b.I, b.v)
        found(superclass, obj) ==
            LET method == get_method(superclass.v, s.method.lexeme)
            IN IF ~superclass.ok THEN VErr(I1, superclass.v)
               ELSE IF ~obj.ok THEN VErr(I1, obj.v)
               ELSE IF ~is_some(method)
                    THEN VErr(I1, [kind |-> "UndefinedProperty", token |-> s.method])
               ELSE bound(bind(I1, unwrap(method), obj.v.ref))
    IN IF ~is_some(d) THEN VErr(I1, [kind |-> "InvalidEnvironmentDistance"])
       ELSE found(get_at(I.envs, I.environment, unwrap(d), s.name),
                  get_at(I.envs, I.environment, unwrap(d) - 1, ThisToken(s.name.line)))

evaluate(I, expr) ==
    CASE expr.k = "Binary" -> visit_binary(I, expr.op, expr.left, expr.right)
      [] expr.k = "Grouping" -> evaluate(I, expr.expr)
      [] expr.k = "Literal" -> VOk(I, expr.value)
      [] expr.k = "Unary" -> visit_unary(I, expr.op, expr.expr)
      [] expr.k = "Variable" -> look_up_variable(I, expr)
      [] expr.k = "Assign" -> visit_assign(I, expr)
      [] expr.k = "Logical" -> visit_logical(I, expr.left, expr.op, expr.right)
      [] expr.k = "Call" -> visit_call(I, expr.callee, expr.paren, expr.args)
      [] expr.k = "Get" -> visit_get(I, expr)
      [] expr.k = "Set" -> visitor_set(I, expr)
      [] expr.k = "This" -> visit_this(I, expr)
      [] expr.k = "Super" -> visit_super(I, expr)

(***************************************************************************)
(* Tokenizer (syntax/tokenizer.rs).  The source is a sequence of           *)
(* characters, each a string of length one; start and current count from 0 *)
(* as in the code, so that source[i] of the code is T.source[i + 1] here.  *)
(* The field result is what scan_tokens has returned, None while it runs.  *)
(***************************************************************************)
Tokenizer_new(source) ==
    [source |-> source, tokens |-> <<>>, start |-> 0, current |-> 0,
     line |-> 1, result |-> None]

is_ascii_digit(c) == c \in {"0", "1", "2", "3", "4", "5", "6", "7", "8", "9"}
is_ascii_alphabetic(c) ==
    c \in {"a", "b", "c", "d", "e", "f", "g", "h", "i", "j", "k", "l", "m",
           "n", "o", "p", "q", "r", "s", "t", "u", "v", "w", "x", "y", "z",
           "A", "B", "C", "D", "E", "F", "G", "H", "I", "J", "K", "L", "M",
           "N", "O", "P", "Q", "R", "S", "T", "U", "V", "W", "X", "Y", "Z"}

\* chars.iter().collect::<String>()
RECURSIVE collect(_)
collect(chars) ==
    IF chars = <<>> THEN "" ELSE Head(chars) \o collect(Tail(chars))

\* str::parse::<f64>() of the text of a number token: an integer when the
\* fraction is absent or zero, otherwise the integer part and the digits of
\* the fraction without trailing zeros.
RECURSIVE parse_f64(_)
parse_f64(chars) ==
    LET dots == {i \in 1..Len(chars) : chars[i] = "."}
        dot == CHOOSE i \in dots : TRUE
        digit(c) == CHOOSE n \in 0..9 : ToString(n) = c
    IN  IF chars = <<>> THEN 0
        ELSE IF dots = {}
        THEN 10 * parse_f64(Front(chars)) + digit(Last(chars))
        ELSE IF Last(chars) \in {"0", "."} THEN parse_f64(Front(chars))
        ELSE [int |-> parse_f64(SubSeq(chars, 1, dot - 1)),
              frac |-> collect(SubSeq(chars, dot + 1, Len(chars)))]

get_keywords(s) ==
    IF s \in {"and", "class", "else", "false", "for", "fun", "if", "nil", "or",
              "print", "return", "super", "this", "true", "var", "while"}
    THEN Some(CASE s = "and" -> "AND" [] s = "class" -> "CLASS"
                [] s = "else" -> "ELSE" [] s = "false" -> "FALSE"
                [] s = "for" -> "FOR" [] s = "fun" -> "FUN" [] s = "if" -> "IF"
                [] s = "nil" -> "NIL" [] s = "or" -> "OR"
                [] s = "print" -> "PRINT" [] s = "return" -> "RETURN"
                [] s = "super" -> "SUPER" [] s = "this" -> "THIS"
                [] s = "true" -> "TRUE" [] s = "var" -> "VAR"
                [] s = "while" -> "WHILE")
    ELSE None

Tokenizer_is_at_end(T) == T.current >= Len(T.source)
Tokenizer_peek(T) ==
    IF T.current < Len(T.source) THEN T.source[T.current + 1] ELSE "NUL"
peek_next(T) ==
    IF T.current + 1 < Len(T.source) THEN T.source[T.current + 2] ELSE "NUL"
Tokenizer_advance(T) == [T EXCEPT !.current = @ + 1]
lexeme(T) == SubSeq(T.source, T.start + 1, T.current)
_add_token(T, ty, literal) ==
    [T EXCEPT !.tokens = Append(@, [token_type |-> ty, lexeme |-> collect(lexeme(T)),
                                    literal |-> literal, line |-> T.line])]

\* The four while loops of string, number, identifier and the comment arm of
\* scan_token: advance while the loop's condition holds.
RECURSIVE advance_while(_, _)
advance_while(T, loop) ==
    LET c == Tokenizer_peek(T)
    IN  IF CASE loop = "string" -> c # "\"" /\ ~Tokenizer_is_at_end(T)
             [] loop = "comment" -> c # "\n" /\ ~Tokenizer_is_at_end(T)
             [] loop = "number" -> is_ascii_digit(c)
             [] loop = "identifier" ->
                    is_ascii_digit(c) \/ is_ascii_alphabetic(c) \/ c = "_"
        THEN advance_while(
                 [T EXCEPT !.current = @ + 1,
                           !.line = IF loop = "string" /\ c = "\n"
                                    THEN @ + 1 ELSE @], loop)
        ELSE T

UnterminatedString(line) == [kind |-> "UnterminatedString", line |-> line]
UnexpectedCharacter(line) == [kind |-> "UnexpectedCharacter", line |-> line]

string(T0) ==
    LET T == advance_while(T0, "string")
        closed == Tokenizer_advance(T)
    IN  IF Tokenizer_is_at_end(T) THEN Err(UnterminatedString(T.line))
        ELSE Ok(_add_token(closed, "STRING",
                    Some(String(collect(SubSeq(T.source, T.start + 2, T.current))))))

\* As if the dot were consumed whatever follows it.
number_greedy(T0) ==
    LET whole == advance_while(T0, "number")
        T == IF Tokenizer_peek(whole) = "."
             THEN advance_while(Tokenizer_advance(whole), "number")
             ELSE whole
    IN  _add_token(T, "NUMBER", Some(Number(parse_f64(lexeme(T)))))

number(T0) ==
    LET whole == advance_while(T0, "number")
        T == IF Tokenizer_peek(whole) = "." /\ is_ascii_digit(peek_next(whole))
             THEN advance_while(Tokenizer_advance(whole), "number")
             ELSE whole
    IN  _add_token(T, "NUMBER", Some(Number(parse_f64(lexeme(T)))))

identifier(T0) ==
    LET T == advance_while(T0, "identifier")
        ty == get_keywords(collect(lexeme(T)))
    IN  _add_token(T, IF is_some(ty) THEN unwrap(ty) ELSE "IDENTIFIER", None)

scan_token(T0) ==
    LET T == Tokenizer_advance(T0)
        c == T.source[T.current]
        single == "(" :> "LEFT_PAREN" @@ ")" :> "RIGHT_PAREN"
                  @@ "{" :> "LEFT_BRACE" @@ "}" :> "RIGHT_BRACE"
                  @@ "," :> "COMMA" @@ "." :> "DOT" @@ "-" :> "MINUS"
                  @@ "+" :> "PLUS" @@ ";" :> "SEMICOLON" @@ "*" :> "STAR"
        double == "!" :> "BANG" @@ "=" :> "EQUAL" @@ "<" :> "LESS"
                  @@ ">" :> "GREATER"
    IN  CASE c \in DOMAIN single -> Ok(_add_token(T, single[c], None))
          [] c \in DOMAIN double ->
                IF Tokenizer_peek(T) = "="
                THEN Ok(_add_token(Tokenizer_advance(T), double[c] \o "_EQUAL", None))
                ELSE Ok(_add_token(T, double[c], None))
          [] c = "/" ->
                IF Tokenizer_peek(T) = "/"
                THEN Ok(advance_while(Tokenizer_advance(T), "comment"))
                ELSE Ok(_add_token(T, "SLASH", None))
          [] c \in {" ", "\r", "\t"} -> Ok(T)
          [] c = "\n" -> Ok([T EXCEPT !.line = @ + 1])
          [] c = "\"" -> string(T)
          [] is_ascii_digit(c) -> Ok(number(T))
          [] is_ascii_alphabetic(c) \/ c = "_" -> Ok(identifier(T))
          [] OTHER -> Err(UnexpectedCharacter(T.line))

\* As if an EOF token were pushed after every token and none at the end.
scan_tokens_iteration_eof_each(T) ==
    IF is_some(T.result) THEN T
    ELSE IF Tokenizer_is_at_end(T)
    THEN [T EXCEPT !.result = Some(Ok(T.tokens))]
    ELSE LET r == scan_token([T EXCEPT !.start = T.current])
         IN  IF r.ok
             THEN [r.v EXCEPT !.tokens = Append(@, [token_type |-> "EOF",
                       lexeme |-> "", literal |-> None, line |-> r.v.line])]
             ELSE [T EXCEPT !.result = Some(r)]

\* One turn of the loop of scan_tokens: a scan_token, or, at the end of the
\* source, the push of EOF and the return.  Nothing after the return.
scan_tokens_iteration(T) ==
    IF is_some(T.result) THEN T
    ELSE IF Tokenizer_is_at_end(T)
    THEN LET tokens == Append(T.tokens, [token_type |-> "EOF", lexeme |-> "",
                                         literal |-> None, line |-> T.line])
         IN  [T EXCEPT !.tokens = tokens, !.result = Some(Ok(tokens))]
    ELSE LET r == scan_token([T EXCEPT !.start = T.current])
         IN  IF r.ok THEN r.v ELSE [T EXCEPT !.result = Some(r)]

\* n turns of the loop, halved so that a long source does not nest deeply
RECURSIVE scan_tokens_loop(_, _)
scan_tokens_loop(T, n) ==
    CASE T.result # <<>> -> T
      [] n <= 1 -> scan_tokens_iteration(T)
      [] OTHER -> scan_tokens_loop(scan_tokens_loop(T, n \div 2), n - n \div 2)

scan_tokens(source) ==
    unwrap(scan_tokens_loop(Tokenizer_new(source), Len(source) + 1).result)

(***************************************************************************)
(* Parser (syntax/parser.rs).  ts is the token slice; P is the parser:     *)
(* current as in the code (tokens[i] of the code is ts[i + 1] here), the   *)
(* lines error() has written to stderr, and oob, set when a token before   *)
(* the first or after the last one has been read.  A parsing function      *)
(* returns [P, ok, v]: v is the tree, or "ParserError" for Err and "Panic" *)
(* for a panic that unwinds through every caller.                          *)
(***************************************************************************)
Parser_new == [current |-> 0, errors |-> <<>>, oob |-> FALSE]
POk(P, v) == [P |-> P, ok |-> TRUE, v |-> v]
PErr(P, e) == [P |-> P, ok |-> FALSE, v |-> e]

MaxArity == 255

Parser_peek(ts, P) ==
    IF P.current < Len(ts) THEN ts[P.current + 1] ELSE [token_type |-> "OutOfBounds"]
Parser_is_at_end(ts, P) == Parser_peek(ts, P).token_type = "EOF"
previous(ts, P) ==
    IF P.current >= 1 THEN ts[P.current] ELSE [token_type |-> "OutOfBounds"]
check(ts, P, tys) ==
    ~Parser_is_at_end(ts, P) /\ Parser_peek(ts, P).token_type \in tys

\* the parser after advance(); the token it returns is previous() of it
Parser_advance(ts, P) ==
    LET P1 == IF Parser_is_at_end(ts, P) THEN P ELSE [P EXCEPT !.current = @ + 1]
    IN  [P1 EXCEPT !.oob = @ \/ P1.current = 0 \/ P.current >= Len(ts)]

error(ts, P, t, msg) ==
    PErr([P EXCEPT !.errors = Append(@, [line |-> t.line, msg |-> msg])],
         "ParserError")
consume(ts, P, ty, msg) ==
    IF check(ts, P, {ty}) THEN POk(Parser_advance(ts, P), Parser_peek(ts, P))
    ELSE error(ts, P, Parser_peek(ts, P), msg)

RECURSIVE synchronize_loop(_, _)
synchronize_loop(ts, P) ==
    IF Parser_is_at_end(ts, P) THEN P
    ELSE IF previous(ts, P).token_type = "SEMICOLON" THEN P
    ELSE IF Parser_peek(ts, P).token_type \in
            {"CLASS", "FUN", "VAR", "FOR", "IF", "WHILE", "PRINT", "RETURN"}
    THEN P
    ELSE synchronize_loop(ts, Parser_advance(ts, P))

\* As if synchronize did not advance before its loop.
synchronize_in_place(ts, P) == synchronize_loop(ts, P)

synchronize(ts, P) == synchronize_loop(ts, Parser_advance(ts, P))

\* The identity of a node that carries a resolution: the position of the
\* token it is made from.
NodeId(P) == "node" \o ToString(P.current)

\* Sequencing of the steps of one parsing function, each ending in `?`; the
\* first failure is the result.  wrap is Ok(make(r?)); closed is r? followed
\* by consume(ty, msg)?, the value made from the value of r and the token;
\* step runs f from R.P and appends its value to the values R.v so far.
wrap(r, make(_)) == IF r.ok THEN [P |-> r.P, ok |-> TRUE, v |-> make(r.v)] ELSE r
closed(ts, r, ty, msg, make(_, _)) ==
    IF r.ok
    THEN IF check(ts, r.P, {ty})
         THEN POk(Parser_advance(ts, r.P), make(r.v, Parser_peek(ts, r.P)))
         ELSE error(ts, r.P, Parser_peek(ts, r.P), msg)
    ELSE r
push(R, r) ==
    IF r.ok THEN [P |-> r.P, ok |-> TRUE, v |-> Append(R.v, r.v)] ELSE r
step(R, f(_)) == IF R.ok THEN push(R, f(R.P)) ELSE R

RECURSIVE primary(_, _), call_loop(_, _), unary(_, _), binary_loop(_, _, _, _),
          assignment(_, _), list_iteration(_, _, _), list_loop(_, _, _, _),
          statement(_, _), declaration(_, _), block_loop(_, _), block(_, _),
          function(_, _, _), methods_loop(_, _)

expression(ts, P) == assignment(ts, P)

primary(ts, P) ==
    LET P1 == Parser_advance(ts, P)
        t == Parser_peek(ts, P)
    IN  CASE t.token_type = "FALSE" -> POk(P1, ELiteral(Boolean(FALSE)))
          [] t.token_type = "TRUE" -> POk(P1, ELiteral(Boolean(TRUE)))
          [] t.token_type = "NIL" -> POk(P1, ELiteral(Nil))
          [] t.token_type \in {"NUMBER", "STRING"} ->
                POk(P1, ELiteral(unwrap(t.literal)))
          [] t.token_type = "LEFT_PAREN" ->
                closed(ts, assignment(ts, P1), "RIGHT_PAREN",
                       "ecpected ')' after expression",
                       LAMBDA expr, paren: EGrouping(expr))
          [] t.token_type = "IDENTIFIER" -> POk(P1, Variable(NodeId(P), t))
          [] t.token_type = "THIS" -> POk(P1, This(NodeId(P), t))
          [] OTHER -> error(ts, P, t, "expected expression")

\* the value of one turn of the loop below: e is the argument or parameter
list_push(ts, S, e) ==
    IF e.ok
    THEN IF check(ts, e.P, {"COMMA"})
         THEN [P |-> Parser_advance(ts, e.P), list |-> Append(S.list, e.v),
               st |-> "loop"]
         ELSE [P |-> e.P, list |-> Append(S.list, e.v), st |-> "break"]
    ELSE [S EXCEPT !.P = e.P, !.st = "Err"]

\* One turn of the loop of finish_call (what = "argument") and of function
\* (what = "parameter"); S is the parser, the list so far, and whether the
\* loop goes on, has left through break, or has returned Err.
list_iteration(ts, S, what) ==
    CASE S.st # "loop" -> S
      [] Len(S.list) >= MaxArity ->
            list_push(ts, S,
                error(ts, S.P, Parser_peek(ts, S.P),
                      IF what = "argument" THEN "Cannot have more than 255 arguments"
                      ELSE "Cannot have more than 255 parameters"))
      [] what = "argument" -> list_push(ts, S, assignment(ts, S.P))
      [] OTHER -> list_push(ts, S, consume(ts, S.P, "IDENTIFIER",
                                           "expected parameter name"))

\* n turns of the loop, halved so that a long list does not nest deeply
list_loop(ts, S, what, n) ==
    CASE S.st # "loop" -> S
      [] n <= 1 -> list_iteration(ts, S, what)
      [] OTHER -> list_loop(ts, list_loop(ts, S, what, n \div 2), what,
                            n - n \div 2)

\* The list between the parentheses: empty when the next token is
\* RIGHT_PAREN; the loop cannot take more turns than MaxArity + 1.  The
\* result is that of the function up to the closing parenthesis.
list_result(S) ==
    IF S.st = "Err" THEN PErr(S.P, "ParserError") ELSE POk(S.P, S.list)
comma_list(ts, P, what) ==
    IF check(ts, P, {"RIGHT_PAREN"}) THEN POk(P, <<>>)
    ELSE list_result(list_loop(ts, [P |-> P, list |-> <<>>, st |-> "loop"],
                               what, MaxArity + 1))

finish_call(ts, P, callee) ==
    closed(ts, comma_list(ts, P, "argument"), "RIGHT_PAREN",
           "expected ')' after arguments",
           LAMBDA args, paren: ECall(callee, paren, args))

\* the loop of call over the expression parsed so far
call_loop(ts, expr) ==
    IF expr.ok
    THEN CASE Parser_peek(ts, expr.P).token_type = "LEFT_PAREN" ->
                call_loop(ts, finish_call(ts, Parser_advance(ts, expr.P), expr.v))
           [] Parser_peek(ts, expr.P).token_type = "DOT" ->
                call_loop(ts,
                    wrap(consume(ts, Parser_advance(ts, expr.P), "IDENTIFIER",
                                 "expected property name after '.'"),
                         LAMBDA name: Get(expr.v, name)))
           [] OTHER -> expr
    ELSE expr

Parser_call(ts, P) == call_loop(ts, primary(ts, P))

unary(ts, P) ==
    IF Parser_peek(ts, P).token_type \in {"BANG", "MINUS"}
    THEN wrap(unary(ts, Parser_advance(ts, P)),
              LAMBDA right: EUnary(Parser_peek(ts, P), right))
    ELSE call_loop(ts, primary(ts, P))

\* factor, term, comparison, equality, and, or, numbered 1..6.  Each of
\* them parses an operand of the level below and then, while one of its own
\* operators follows, a right operand of the level below, building a
\* left-leaning Binary (Logical for and, or).  The leftmost operand of every
\* level is the same unary, and a level is never re-entered once an operator
\* of a higher level has been seen, so binary_loop(ts, unary, 1, level) is
\* what the function of that level returns: the loop takes the operator
\* that follows if its level is among from..level, and goes on from there.
Level(ty) ==
    CASE ty \in {"SLASH", "STAR"} -> 1
      [] ty \in {"PLUS", "MINUS"} -> 2
      [] ty \in {"GREATER", "GREATER_EQUAL", "LESS", "LESS_EQUAL"} -> 3
      [] ty \in {"BANG_EQUAL", "EQUAL_EQUAL"} -> 4
      [] ty = "AND" -> 5
      [] ty = "OR" -> 6
      [] OTHER -> 0

binary_node(ts, expr, right) ==
    IF right.ok
    THEN POk(right.P,
             IF Level(Parser_peek(ts, expr.P).token_type) >= 5
             THEN ELogical(expr.v, Parser_peek(ts, expr.P), right.v)
             ELSE EBinary(expr.v, Parser_peek(ts, expr.P), right.v))
    ELSE right

binary_loop(ts, expr, from, level) ==
    IF expr.ok
    THEN IF Level(Parser_peek(ts, expr.P).token_type) \in from..level
         THEN binary_loop(ts,
                  binary_node(ts, expr,
                      binary_loop(ts, unary(ts, Parser_advance(ts, expr.P)), 1,
                                  Level(Parser_peek(ts, expr.P).token_type) - 1)),
                  Level(Parser_peek(ts, expr.P).token_type), level)
         ELSE expr
    ELSE expr

\* the rest of assignment after `let expr = self.or()?`
assignment_value(ts, expr, value) ==
    IF value.ok
    THEN CASE expr.v.k = "Variable" ->
                POk(value.P, Assign(NodeId(expr.P), expr.v.name, value.v))
           [] expr.v.k = "Get" ->
                POk(value.P, Set(expr.v.object, expr.v.name, value.v))
           [] OTHER -> error(ts, value.P, Parser_peek(ts, expr.P),
                             "Invalid assignment target")
    ELSE value

assignment_rest(ts, expr) ==
    IF expr.ok
    THEN IF Parser_peek(ts, expr.P).token_type = "EQUAL"
         THEN assignment_value(ts, expr, assignment(ts, Parser_advance(ts, expr.P)))
         ELSE expr
    ELSE expr

assignment(ts, P) == assignment_rest(ts, binary_loop(ts, unary(ts, P), 1, 6))

expression_statement(ts, P) ==
    closed(ts, assignment(ts, P), "SEMICOLON", "expected ';' after value",
           LAMBDA expr, semi: SExpression(expr))

print_statement(ts, P) ==
    closed(ts, assignment(ts, P), "SEMICOLON", "expected ';' after value",
           LAMBDA expr, semi: SPrint(expr))

\* Some(self.expression()?) when the token ty does not follow, else None
optional(ts, P, ty) ==
    IF check(ts, P, {ty}) THEN POk(P, None)
    ELSE wrap(assignment(ts, P), LAMBDA e: Some(e))

var_declaration(ts, P) ==
    LET name == consume(ts, P, "IDENTIFIER", "expected variable name")
    IN  IF name.ok
        THEN closed(ts,
                 IF check(ts, name.P, {"EQUAL"})
                 THEN wrap(assignment(ts, Parser_advance(ts, name.P)),
                           LAMBDA e: Some(e))
                 ELSE POk(name.P, None),
                 "SEMICOLON", "expected ';' after variable declaration",
                 LAMBDA initializer, semi: SVar(name.v, initializer))
        ELSE name

\* `(` condition `)` of if and while
condition(ts, P, keyword) ==
    LET lp == consume(ts, P, "LEFT_PAREN", "expected '(' after '" \o keyword \o "'")
    IN  IF lp.ok
        THEN closed(ts, assignment(ts, lp.P), "RIGHT_PAREN",
                    "expected ')' after condition", LAMBDA cond, rp: cond)
        ELSE lp

\* the rest of if_statement after the then branch
else_branch(ts, cond, then_branch) ==
    IF then_branch.ok
    THEN IF check(ts, then_branch.P, {"ELSE"})
         THEN wrap(statement(ts, Parser_advance(ts, then_branch.P)),
                   LAMBDA e: SIf(cond.v, then_branch.v, Some(e)))
         ELSE POk(then_branch.P, SIf(cond.v, then_branch.v, None))
    ELSE then_branch

\* the rest of if_statement and while_statement after the condition
body_of(ts, cond, keyword) ==
    IF cond.ok
    THEN IF keyword = "if" THEN else_branch(ts, cond, statement(ts, cond.P))
         ELSE wrap(statement(ts, cond.P), LAMBDA body: SWhile(cond.v, body))
    ELSE cond

if_statement(ts, P) == body_of(ts, condition(ts, P, "if"), "if")

while_statement(ts, P) == body_of(ts, condition(ts, P, "while"), "while")

\* As if the increment ran before the body.
desugar_increment_first(initializer, cond, increment, body) ==
    LET loop == SWhile(cond,
                     IF is_some(increment)
                     THEN SBlock(<<SExpression(unwrap(increment)), body>>)
                     ELSE SBlock(<<body>>))
    IN  IF is_some(initializer) THEN SBlock(<<unwrap(initializer), loop>>)
        ELSE loop

\* the tree for_statement builds from the parts it has parsed
desugar(initializer, cond, increment, body) ==
    LET loop == SWhile(cond,
                     IF is_some(increment)
                     THEN SBlock(<<body, SExpression(unwrap(increment))>>)
                     ELSE SBlock(<<body>>))
    IN  IF is_some(initializer) THEN SBlock(<<unwrap(initializer), loop>>)
        ELSE loop

\* for_statement up to the closing parenthesis: the values of its steps
for_clauses(ts, P) ==
    step(step(step(step(step(step(POk(P, <<>>),
         LAMBDA Q: consume(ts, Q, "LEFT_PAREN", "expected '(' after 'for'")),
         LAMBDA Q: IF check(ts, Q, {"SEMICOLON"}) THEN POk(Parser_advance(ts, Q), None)
                   ELSE IF check(ts, Q, {"VAR"})
                   THEN wrap(var_declaration(ts, Parser_advance(ts, Q)),
                             LAMBDA s: Some(s))
                   ELSE wrap(expression_statement(ts, Q), LAMBDA s: Some(s))),
         LAMBDA Q: IF ~check(ts, Q, {"SEMICOLON"}) THEN assignment(ts, Q)
                   ELSE POk(Q, ELiteral(Boolean(TRUE)))),
         LAMBDA Q: consume(ts, Q, "SEMICOLON", "expected ';' after loop condition")),
         LAMBDA Q: optional(ts, Q, "RIGHT_PAREN")),
         LAMBDA Q: consume(ts, Q, "RIGHT_PAREN", "expected ')' after for clauses"))

for_body(ts, clauses) ==
    IF clauses.ok
    THEN wrap(statement(ts, clauses.P),
              LAMBDA body: desugar(clauses.v[2], clauses.v[3], clauses.v[5], body))
    ELSE clauses

for_statement(ts, P) == for_body(ts, for_clauses(ts, P))

return_statement(ts, P) ==
    closed(ts, optional(ts, P, "SEMICOLON"), "SEMICOLON",
           "expected ';' after return value",
           LAMBDA value, semi: SReturn(previous(ts, P), value))

\* stmts.push(self.declaration().unwrap()): a panic when the declaration
\* has returned None
block_push(S, d) ==
    IF d.ok
    THEN IF is_some(d.v)
         THEN [P |-> d.P, ok |-> TRUE, v |-> Append(S.v, unwrap(d.v))]
         ELSE PErr(d.P, "Panic")
    ELSE d

\* the loop of block over the statements S.v parsed so far
block_loop(ts, S) ==
    IF S.ok
    THEN IF ~check(ts, S.P, {"RIGHT_BRACE"}) /\ ~Parser_is_at_end(ts, S.P)
         THEN block_loop(ts, block_push(S, declaration(ts, S.P)))
         ELSE S
    ELSE S

block(ts, P) ==
    closed(ts, block_loop(ts, POk(P, <<>>)), "RIGHT_BRACE",
           "expected '}' after block", LAMBDA stmts_, brace: stmts_)

statement(ts, P) ==
    LET P1 == Parser_advance(ts, P)
        ty == Parser_peek(ts, P).token_type
    IN  CASE ty = "PRINT" -> print_statement(ts, P1)
          [] ty = "LEFT_BRACE" -> wrap(block(ts, P1), LAMBDA b: SBlock(b))
          [] ty = "IF" -> if_statement(ts, P1)
          [] ty = "WHILE" -> while_statement(ts, P1)
          [] ty = "FOR" -> for_statement(ts, P1)
          [] ty = "RETURN" -> return_statement(ts, P1)
          [] OTHER -> expression_statement(ts, P)

\* function up to the opening brace of the body: the values of its steps
function_head(ts, P, kind) ==
    step(step(step(step(step(POk(P, <<>>),
         LAMBDA Q: consume(ts, Q, "IDENTIFIER", "expected " \o kind \o " name")),
         LAMBDA Q: consume(ts, Q, "LEFT_PAREN", "expected '(' after " \o kind)),
         LAMBDA Q: comma_list(ts, Q, "parameter")),
         LAMBDA Q: consume(ts, Q, "RIGHT_PAREN", "expected ')' after parameters")),
         LAMBDA Q: consume(ts, Q, "LEFT_BRACE",
                           "expected '{' before " \o kind \o " body"))

function_body(ts, head) ==
    IF head.ok
    THEN wrap(block(ts, head.P), LAMBDA body: FnStmt(head.v[1], head.v[3], body))
    ELSE head

function(ts, P, kind) == function_body(ts, function_head(ts, P, kind))

methods_loop(ts, S) ==
    IF S.ok
    THEN IF ~check(ts, S.P, {"RIGHT_BRACE"}) /\ ~Parser_is_at_end(ts, S.P)
         THEN methods_loop(ts, push(S, function(ts, S.P, "method")))
         ELSE S
    ELSE S

\* class_declaration up to the opening brace: the name and the superclass
class_head(ts, P) ==
    step(step(step(POk(P, <<>>),
         LAMBDA Q: consume(ts, Q, "IDENTIFIER", "Expect class name")),
         LAMBDA Q: IF check(ts, Q, {"LESS"})
                   THEN wrap(consume(ts, Parser_advance(ts, Q), "IDENTIFIER",
                                     "Expect superclass name."),
                             LAMBDA name:
                                 Some(Variable(NodeId(Parser_advance(ts, Q)), name)))
                   ELSE POk(Q, None)),
         LAMBDA Q: consume(ts, Q, "LEFT_BRACE", "Expect '{' before class body"))

class_body(ts, head) ==
    IF head.ok
    THEN closed(ts, methods_loop(ts, POk(head.P, <<>>)), "RIGHT_BRACE",
                "Expect '}' after class body",
                LAMBDA methods, brace: ClassStmt(head.v[1], head.v[2], methods))
    ELSE head

class_declaration(ts, P) == class_body(ts, class_head(ts, P))

\* the match on res at the end of declaration
recover(ts, res) ==
    IF res.ok THEN POk(res.P, Some(res.v))
    ELSE IF res.v = "Panic" THEN res
    ELSE POk(synchronize(ts, res.P), None)

declaration(ts, P) ==
    CASE Parser_peek(ts, P).token_type = "VAR" ->
            recover(ts, var_declaration(ts, Parser_advance(ts, P)))
      [] Parser_peek(ts, P).token_type = "FUN" ->
            recover(ts, function(ts, Parser_advance(ts, P), "function"))
      [] Parser_peek(ts, P).token_type = "CLASS" ->
            recover(ts, class_declaration(ts, Parser_advance(ts, P)))
      [] OTHER -> recover(ts, statement(ts, P))

\* One turn of the loop of parse; S is the parser and the statements so
\* far, S.ok is FALSE once a panic has left parse.
parse_iteration(ts, S) ==
    IF S.ok /\ ~Parser_is_at_end(ts, S.P) THEN push(S, declaration(ts, S.P))
    ELSE S

RECURSIVE parse_loop(_, _, _)
parse_loop(ts, S, n) ==
    CASE ~S.ok \/ Parser_is_at_end(ts, S.P) -> S
      [] n <= 1 -> parse_iteration(ts, S)
      [] OTHER -> parse_loop(ts, parse_loop(ts, S, n \div 2), n - n \div 2)

\* Parser::new(tokens).parse(): Ok(stmts), or Err("Panic")
parse_result(S) == IF S.ok THEN Ok(S.v) ELSE Err(S.v)
Parser_parse(ts) == parse_result(parse_loop(ts, POk(Parser_new, <<>>), Len(ts)))

(***************************************************************************)
(* Programs: what the tokenizer and the parser return for the source in    *)
(* the comment above each definition.                                      *)
(***************************************************************************)
\* var a = "global";
\* {
\*   fun showA() {
\*     print a;
\*   }
\*   showA();
\*   var a = "block";
\*   showA();
\* }
P_local_fun2 ==
    [name |-> "local_fun2", shape |-> None, scan |-> Ok("tokens"),
     parse |-> Ok(<<
        Some(SVar(Token("IDENTIFIER", "a", 1), Some(ELiteral(String("global"))))),
        Some(SBlock(<<FnStmt(Token("IDENTIFIER", "showA", 3), <<>>,
             <<SPrint(Variable("local_fun2#1", Token("IDENTIFIER", "a", 4)))>>),
             SExpression(ECall(Variable("local_fun2#2", Token("IDENTIFIER", "showA",
             6)), Token("RIGHT_PAREN", ")", 6), <<>>)), SVar(Token("IDENTIFIER", "a",
             7), Some(ELiteral(String("block")))),
             SExpression(ECall(Variable("local_fun2#3", Token("IDENTIFIER", "showA",
             8)), Token("RIGHT_PAREN", ")", 8), <<>>))>>))>>)]

\* var a = "global";
\* {
\*   var a = "outer";
\*   {
\*     fun showA() { print a; }
\*     fun setA() { a = "set"; }
\*     showA();
\*     var a = "inner";
\*     setA();
\*     showA();
\*     print a;
\*   }
\*   print a;
\* }
\* print a;
P_shadow_later ==
    [name |-> "shadow_later", shape |-> None, scan |-> Ok("tokens"),
     parse |-> Ok(<<
        Some(SVar(Token("IDENTIFIER", "a", 1), Some(ELiteral(String("global"))))),
        Some(SBlock(<<SVar(Token("IDENTIFIER", "a", 3),
             Some(ELiteral(String("outer")))), SBlock(<<FnStmt(Token("IDENTIFIER",
             "showA", 5), <<>>, <<SPrint(Variable("shadow_later#1", Token("IDENTIFIER",
             "a", 5)))>>), FnStmt(Token("IDENTIFIER", "setA", 6), <<>>,
             <<SExpression(Assign("shadow_later#3", Token("IDENTIFIER", "a", 6),
             ELiteral(String("set"))))>>), SExpression(ECall(Variable("shadow_later#4",
             Token("IDENTIFIER", "showA", 7)), Token("RIGHT_PAREN", ")", 7), <<>>)),
             SVar(Token("IDENTIFIER", "a", 8), Some(ELiteral(String("inner")))),
             SExpression(ECall(Variable("shadow_later#5", Token("IDENTIFIER", "setA",
             9)), Token("RIGHT_PAREN", ")", 9), <<>>)),
             SExpression(ECall(Variable("shadow_later#6", Token("IDENTIFIER", "showA",
             10)), Token("RIGHT_PAREN", ")", 10), <<>>)),
             SPrint(Variable("shadow_later#7", Token("IDENTIFIER", "a", 11)))>>),
             SPrint(Variable("shadow_later#8", Token("IDENTIFIER", "a", 13)))>>)),
        Some(SPrint(Variable("shadow_later#9", Token("IDENTIFIER", "a", 15))))>>)]

\* var a = "global a";
\* var b = "global b";
\* {
\*   var a = "outer a";
\*   {
\*     var a = "inner a";
\*     print a;
\*     print b;
\*   }
\*   print a;
\* }
\* print a;
P_test_block ==
    [name |-> "test_block", shape |-> None, scan |-> Ok("tokens"),
     parse |-> Ok(<<
        Some(SVar(Token("IDENTIFIER", "a", 1), Some(ELiteral(String("global a"))))),
        Some(SVar(Token("IDENTIFIER", "b", 2), Some(ELiteral(String("global b"))))),
        Some(SBlock(<<SVar(Token("IDENTIFIER", "a", 4),
             Some(ELiteral(String("outer a")))), SBlock(<<SVar(Token("IDENTIFIER", "a",
             6), Some(ELiteral(String("inner a")))), SPrint(Variable("test_block#1",
             Token("IDENTIFIER", "a", 7))), SPrint(Variable("test_block#2",
             Token("IDENTIFIER", "b", 8)))>>), SPrint(Variable("test_block#3",
             Token("IDENTIFIER", "a", 10)))>>)),
        Some(SPrint(Variable("test_block#4", Token("IDENTIFIER", "a", 12))))>>)]

\* fun makeCounter() {
\*   var i = 0;
\*   fun count() {
\*     i = i + 1;
\*     print i;
\*   }
\*   return count;
\* }
\* var counter = makeCounter();
\* counter();
\* counter();
P_local_fun ==
    [name |-> "local_fun", shape |-> None, scan |-> Ok("tokens"),
     parse |-> Ok(<<
        Some(FnStmt(Token("IDENTIFIER", "makeCounter", 1), <<>>,
             <<SVar(Token("IDENTIFIER", "i", 2), Some(ELiteral(Number(0)))),
             FnStmt(Token("IDENTIFIER", "count", 3), <<>>,
             <<SExpression(Assign("local_fun#3", Token("IDENTIFIER", "i", 4),
             EBinary(Variable("local_fun#2", Token("IDENTIFIER", "i", 4)), Token("PLUS",
             "+", 4), ELiteral(Number(1))))), SPrint(Variable("local_fun#4",
             Token("IDENTIFIER", "i", 5)))>>), SReturn(Token("RETURN", "return", 7),
             Some(Variable("local_fun#5", Token("IDENTIFIER", "count", 7))))>>)),
        Some(SVar(Token("IDENTIFIER", "counter", 9),
             Some(ECall(Variable("local_fun#6", Token("IDENTIFIER", "makeCounter", 9)),
             Token("RIGHT_PAREN", ")", 9), <<>>)))),
        Some(SExpression(ECall(Variable("local_fun#7", Token("IDENTIFIER",
             "counter", 10)), Token("RIGHT_PAREN", ")", 10), <<>>))),
        Some(SExpression(ECall(Variable("local_fun#8", Token("IDENTIFIER",
             "counter", 11)), Token("RIGHT_PAREN", ")", 11), <<>>)))>>)]

\* fun makeCounter() {
\*   var i = 0;
\*   fun count() {
\*     i = i + 1;
\*     print i;
\*   }
\*   return count;
\* }
\* var k1 = makeCounter();
\* k1();
\* var k2 = makeCounter();
\* k1();
\* k2();
\* k1();
P_two_counters ==
    [name |-> "two_counters", shape |-> None, scan |-> Ok("tokens"),
     parse |-> Ok(<<
        Some(FnStmt(Token("IDENTIFIER", "makeCounter", 1), <<>>,
             <<SVar(Token("IDENTIFIER", "i", 2), Some(ELiteral(Number(0)))),
             FnStmt(Token("IDENTIFIER", "count", 3), <<>>,
             <<SExpression(Assign("two_counters#3", Token("IDENTIFIER", "i", 4),
             EBinary(Variable("two_counters#2", Token("IDENTIFIER", "i", 4)),
             Token("PLUS", "+", 4), ELiteral(Number(1))))),
             SPrint(Variable("two_counters#4", Token("IDENTIFIER", "i", 5)))>>),
             SReturn(Token("RETURN", "return", 7), Some(Variable("two_counters#5",
             Token("IDENTIFIER", "count", 7))))>>)),
        Some(SVar(Token("IDENTIFIER", "k1", 9),
             Some(ECall(Variable("two_counters#6", Token("IDENTIFIER", "makeCounter",
             9)), Token("RIGHT_PAREN", ")", 9), <<>>)))),
        Some(SExpression(ECall(Variable("two_counters#7", Token("IDENTIFIER", "k1",
             10)), Token("RIGHT_PAREN", ")", 10), <<>>))),
        Some(SVar(Token("IDENTIFIER", "k2", 11),
             Some(ECall(Variable("two_counters#8", Token("IDENTIFIER", "makeCounter",
             11)), Token("RIGHT_PAREN", ")", 11), <<>>)))),
        Some(SExpression(ECall(Variable("two_counters#9", Token("IDENTIFIER", "k1",
             12)), Token("RIGHT_PAREN", ")", 12), <<>>))),
        Some(SExpression(ECall(Variable("two_counters#10", Token("IDENTIFIER",
             "k2", 13)), Token("RIGHT_PAREN", ")", 13), <<>>))),
        Some(SExpression(ECall(Variable("two_counters#11", Token("IDENTIFIER",
             "k1", 14)), Token("RIGHT_PAREN", ")", 14), <<>>)))>>)]

\* fun f() {
\*   while (true) {
\*     {
\*       if (true) { return "r"; }
\*     }
\*     print "after if";
\*   }
\*   print "after loop";
\* }
\* print f();
\* fun g() {
\*   { return; }
\*   print "after return";
\* }
\* print g();
\* fun h() { print "h"; }
\* print h();
\* fun outer() {
\*   fun inner(n) {
\*     var i = 0;
\*     while (i < 3) {
\*       if (i == n) return i;
\*       i = i + 1;
\*     }
\*     return "none";
\*   }
\*   print inner(1);
\*   print inner(5);
\*   return "outer";
\* }
\* print outer();
\* print "end";
P_return_inside ==
    [name |-> "return_inside", shape |-> None, scan |-> Ok("tokens"),
     parse |-> Ok(<<
        Some(FnStmt(Token("IDENTIFIER", "f", 1), <<>>,
             <<SWhile(ELiteral(Boolean(TRUE)),
             SBlock(<<SBlock(<<SIf(ELiteral(Boolean(TRUE)),
             SBlock(<<SReturn(Token("RETURN", "return", 4),
             Some(ELiteral(String("r"))))>>), None)>>),
             SPrint(ELiteral(String("after if")))>>)),
             SPrint(ELiteral(String("after loop")))>>)),
        Some(SPrint(ECall(Variable("return_inside#1", Token("IDENTIFIER", "f",
             10)), Token("RIGHT_PAREN", ")", 10), <<>>))),
        Some(FnStmt(Token("IDENTIFIER", "g", 11), <<>>,
             <<SBlock(<<SReturn(Token("RETURN", "return", 12), None)>>),
             SPrint(ELiteral(String("after return")))>>)),
        Some(SPrint(ECall(Variable("return_inside#2", Token("IDENTIFIER", "g",
             15)), Token("RIGHT_PAREN", ")", 15), <<>>))),
        Some(FnStmt(Token("IDENTIFIER", "h", 16), <<>>,
             <<SPrint(ELiteral(String("h")))>>)),
        Some(SPrint(ECall(Variable("return_inside#3", Token("IDENTIFIER", "h",
             17)), Token("RIGHT_PAREN", ")", 17), <<>>))),
        Some(FnStmt(Token("IDENTIFIER", "outer", 18), <<>>,
             <<FnStmt(Token("IDENTIFIER", "inner", 19), <<Token("IDENTIFIER", "n",
             19)>>, <<SVar(Token("IDENTIFIER", "i", 20), Some(ELiteral(Number(0)))),
             SWhile(EBinary(Variable("return_inside#4", Token("IDENTIFIER", "i", 21)),
             Token("LESS", "<", 21), ELiteral(Number(3))),
             SBlock(<<SIf(EBinary(Variable("return_inside#5", Token("IDENTIFIER", "i",
             22)), Token("EQUAL_EQUAL", "==", 22), Variable("return_inside#6",
             Token("IDENTIFIER", "n", 22))), SReturn(Token("RETURN", "return", 22),
             Some(Variable("return_inside#7", Token("IDENTIFIER", "i", 22)))), None),
             SExpression(Assign("return_inside#10", Token("IDENTIFIER", "i", 23),
             EBinary(Variable("return_inside#9", Token("IDENTIFIER", "i", 23)),
             Token("PLUS", "+", 23), ELiteral(Number(1)))))>>)), SReturn(Token("RETURN",
             "return", 25), Some(ELiteral(String("none"))))>>),
             SPrint(ECall(Variable("return_inside#11", Token("IDENTIFIER", "inner",
             27)), Token("RIGHT_PAREN", ")", 27), <<ELiteral(Number(1))>>)),
             SPrint(ECall(Variable("return_inside#12", Token("IDENTIFIER", "inner",
             28)), Token("RIGHT_PAREN", ")", 28), <<ELiteral(Number(5))>>)),
             SReturn(Token("RETURN", "return", 29), Some(ELiteral(String("outer"))))>>)),
        Some(SPrint(ECall(Variable("return_inside#13", Token("IDENTIFIER", "outer",
             31)), Token("RIGHT_PAREN", ")", 31), <<>>))),
        Some(SPrint(ELiteral(String("end"))))>>)]

\* class Foo {
\*   init(x) {
\*     this.x = x;
\*   }
\*   bar() {
\*     print this.x;
\*   }
\* }
\* var foo = Foo(2);
\* var bar = foo.init(1);
\* print bar.x;
\* print foo.x;
\* foo.x = 3;
\* print bar.x;
P_test_init3 ==
    [name |-> "test_init3", shape |-> None, scan |-> Ok("tokens"),
     parse |-> Ok(<<
        Some(ClassStmt(Token("IDENTIFIER", "Foo", 1), None,
             <<FnStmt(Token("IDENTIFIER", "init", 2), <<Token("IDENTIFIER", "x", 2)>>,
             <<SExpression(Set(This("test_init3#1", Token("THIS", "this", 3)),
             Token("IDENTIFIER", "x", 3), Variable("test_init3#2", Token("IDENTIFIER",
             "x", 3))))>>), FnStmt(Token("IDENTIFIER", "bar", 5), <<>>,
             <<SPrint(Get(This("test_init3#3", Token("THIS", "this", 6)),
             Token("IDENTIFIER", "x", 6)))>>)>>)),
        Some(SVar(Token("IDENTIFIER", "foo", 9),
             Some(ECall(Variable("test_init3#4", Token("IDENTIFIER", "Foo", 9)),
             Token("RIGHT_PAREN", ")", 9), <<ELiteral(Number(2))>>)))),
        Some(SVar(Token("IDENTIFIER", "bar", 10),
             Some(ECall(Get(Variable("test_init3#5", Token("IDENTIFIER", "foo", 10)),
             Token("IDENTIFIER", "init", 10)), Token("RIGHT_PAREN", ")", 10),
             <<ELiteral(Number(1))>>)))),
        Some(SPrint(Get(Variable("test_init3#6", Token("IDENTIFIER", "bar", 11)),
             Token("IDENTIFIER", "x", 11)))),
        Some(SPrint(Get(Variable("test_init3#7", Token("IDENTIFIER", "foo", 12)),
             Token("IDENTIFIER", "x", 12)))),
        Some(SExpression(Set(Variable("test_init3#8", Token("IDENTIFIER", "foo",
             13)), Token("IDENTIFIER", "x", 13), ELiteral(Number(3))))),
        Some(SPrint(Get(Variable("test_init3#9", Token("IDENTIFIER", "bar", 14)),
             Token("IDENTIFIER", "x", 14))))>>)]

\* class Foo {
\*   init(x) {
\*     this.x = x;
\*     if (x > 1) { return; }
\*     this.x = 0;
\*   }
\* }
\* var a = Foo(2);
\* var b = a.init(5);
\* print a.x;
\* b.y = 7;
\* print a.y;
\* var c = b.init(1);
\* print a.x;
\* c.x = 9;
\* print a.x;
\* print Foo(1).x;
P_init_return ==
    [name |-> "init_return", shape |-> None, scan |-> Ok("tokens"),
     parse |-> Ok(<<
        Some(ClassStmt(Token("IDENTIFIER", "Foo", 1), None,
             <<FnStmt(Token("IDENTIFIER", "init", 2), <<Token("IDENTIFIER", "x", 2)>>,
             <<SExpression(Set(This("init_return#1", Token("THIS", "this", 3)),
             Token("IDENTIFIER", "x", 3), Variable("init_return#2", Token("IDENTIFIER",
             "x", 3)))), SIf(EBinary(Variable("init_return#3", Token("IDENTIFIER", "x",
             4)), Token("GREATER", ">", 4), ELiteral(Number(1))),
             SBlock(<<SReturn(Token("RETURN", "return", 4), None)>>), None),
             SExpression(Set(This("init_return#4", Token("THIS", "this", 5)),
             Token("IDENTIFIER", "x", 5), ELiteral(Number(0))))>>)>>)),
        Some(SVar(Token("IDENTIFIER", "a", 8), Some(ECall(Variable("init_return#5",
             Token("IDENTIFIER", "Foo", 8)), Token("RIGHT_PAREN", ")", 8),
             <<ELiteral(Number(2))>>)))),
        Some(SVar(Token("IDENTIFIER", "b", 9),
             Some(ECall(Get(Variable("init_return#6", Token("IDENTIFIER", "a", 9)),
             Token("IDENTIFIER", "init", 9)), Token("RIGHT_PAREN", ")", 9),
             <<ELiteral(Number(5))>>)))),
        Some(SPrint(Get(Variable("init_return#7", Token("IDENTIFIER", "a", 10)),
             Token("IDENTIFIER", "x", 10)))),
        Some(SExpression(Set(Variable("init_return#8", Token("IDENTIFIER", "b",
             11)), Token("IDENTIFIER", "y", 11), ELiteral(Number(7))))),
        Some(SPrint(Get(Variable("init_return#9", Token("IDENTIFIER", "a", 12)),
             Token("IDENTIFIER", "y", 12)))),
        Some(SVar(Token("IDENTIFIER", "c", 13),
             Some(ECall(Get(Variable("init_return#10", Token("IDENTIFIER", "b", 13)),
             Token("IDENTIFIER", "init", 13)), Token("RIGHT_PAREN", ")", 13),
             <<ELiteral(Number(1))>>)))),
        Some(SPrint(Get(Variable("init_return#11", Token("IDENTIFIER", "a", 14)),
             Token("IDENTIFIER", "x", 14)))),
        Some(SExpression(Set(Variable("init_return#12", Token("IDENTIFIER", "c",
             15)), Token("IDENTIFIER", "x", 15), ELiteral(Number(9))))),
        Some(SPrint(Get(Variable("init_return#13", Token("IDENTIFIER", "a", 16)),
             Token("IDENTIFIER", "x", 16)))),
        Some(SPrint(Get(ECall(Variable("init_return#14", Token("IDENTIFIER", "Foo",
             17)), Token("RIGHT_PAREN", ")", 17), <<ELiteral(Number(1))>>),
             Token("IDENTIFIER", "x", 17))))>>)]

\* class Foo {
\*   bar() {
\*     print this.x;
\*   }
\* }
\* var foo = Foo();
\* foo.x = 1;
\* var m = foo.bar;
\* var other = Foo();
\* other.x = 2;
\* var n = other.bar;
\* m();
\* n();
\* m();
P_test_this ==
    [name |-> "test_this", shape |-> None, scan |-> Ok("tokens"),
     parse |-> Ok(<<
        Some(ClassStmt(Token("IDENTIFIER", "Foo", 1), None,
             <<FnStmt(Token("IDENTIFIER", "bar", 2), <<>>,
             <<SPrint(Get(This("test_this#1", Token("THIS", "this", 3)),
             Token("IDENTIFIER", "x", 3)))>>)>>)),
        Some(SVar(Token("IDENTIFIER", "foo", 6), Some(ECall(Variable("test_this#2",
             Token("IDENTIFIER", "Foo", 6)), Token("RIGHT_PAREN", ")", 6), <<>>)))),
        Some(SExpression(Set(Variable("test_this#3", Token("IDENTIFIER", "foo",
             7)), Token("IDENTIFIER", "x", 7), ELiteral(Number(1))))),
        Some(SVar(Token("IDENTIFIER", "m", 8), Some(Get(Variable("test_this#4",
             Token("IDENTIFIER", "foo", 8)), Token("IDENTIFIER", "bar", 8))))),
        Some(SVar(Token("IDENTIFIER", "other", 9),
             Some(ECall(Variable("test_this#5", Token("IDENTIFIER", "Foo", 9)),
             Token("RIGHT_PAREN", ")", 9), <<>>)))),
        Some(SExpression(Set(Variable("test_this#6", Token("IDENTIFIER", "other",
             10)), Token("IDENTIFIER", "x", 10), ELiteral(Number(2))))),
        Some(SVar(Token("IDENTIFIER", "n", 11), Some(Get(Variable("test_this#7",
             Token("IDENTIFIER", "other", 11)), Token("IDENTIFIER", "bar", 11))))),
        Some(SExpression(ECall(Variable("test_this#8", Token("IDENTIFIER", "m",
             12)), Token("RIGHT_PAREN", ")", 12), <<>>))),
        Some(SExpression(ECall(Variable("test_this#9", Token("IDENTIFIER", "n",
             13)), Token("RIGHT_PAREN", ")", 13), <<>>))),
        Some(SExpression(ECall(Variable("test_this#10", Token("IDENTIFIER", "m",
             14)), Token("RIGHT_PAREN", ")", 14), <<>>)))>>)]

\* class A {
\*   m() { print "A.m"; }
\* }
\* class B < A {
\*   m() {
\*     super.m();
\*     print "B.m";
\*   }
\* }
\* B().m();
P_inherit_super ==
    [name |-> "inherit_super", shape |-> None, scan |-> Ok("tokens"),
     parse |-> Ok(<<
        Some(ClassStmt(Token("IDENTIFIER", "A", 1), None,
             <<FnStmt(Token("IDENTIFIER", "m", 2), <<>>,
             <<SPrint(ELiteral(String("A.m")))>>)>>)),
        Some(ClassStmt(Token("IDENTIFIER", "B", 4),
             Some(Variable("inherit_super#1", Token("IDENTIFIER", "A", 4))),
             <<FnStmt(Token("IDENTIFIER", "m", 5), <<>>,
             <<SExpression(ECall(Super("inherit_super#2", Token("SUPER", "super", 6),
             Token("IDENTIFIER", "m", 6)), Token("RIGHT_PAREN", ")", 6), <<>>)),
             SPrint(ELiteral(String("B.m")))>>)>>)),
        Some(SExpression(ECall(Get(ECall(Variable("inherit_super#3",
             Token("IDENTIFIER", "B", 10)), Token("RIGHT_PAREN", ")", 10), <<>>),
             Token("IDENTIFIER", "m", 10)), Token("RIGHT_PAREN", ")", 10), <<>>)))>>)]

\* class B {
\*   bar() { print "bar"; }
\* }
\* class A < B {
\*   init() { this.x = 1; }
\*   foo() { print this.x; }
\* }
\* A().bar();
\* A().foo();
P_test_inherit ==
    [name |-> "test_inherit", shape |-> None, scan |-> Ok("tokens"),
     parse |-> Ok(<<
        Some(ClassStmt(Token("IDENTIFIER", "B", 1), None,
             <<FnStmt(Token("IDENTIFIER", "bar", 2), <<>>,
             <<SPrint(ELiteral(String("bar")))>>)>>)),
        Some(ClassStmt(Token("IDENTIFIER", "A", 4), Some(Variable("test_inherit#1",
             Token("IDENTIFIER", "B", 4))), <<FnStmt(Token("IDENTIFIER", "init", 5),
             <<>>, <<SExpression(Set(This("test_inherit#2", Token("THIS", "this", 5)),
             Token("IDENTIFIER", "x", 5), ELiteral(Number(1))))>>),
             FnStmt(Token("IDENTIFIER", "foo", 6), <<>>,
             <<SPrint(Get(This("test_inherit#3", Token("THIS", "this", 6)),
             Token("IDENTIFIER", "x", 6)))>>)>>)),
        Some(SExpression(ECall(Get(ECall(Variable("test_inherit#4",
             Token("IDENTIFIER", "A", 8)), Token("RIGHT_PAREN", ")", 8), <<>>),
             Token("IDENTIFIER", "bar", 8)), Token("RIGHT_PAREN", ")", 8), <<>>))),
        Some(SExpression(ECall(Get(ECall(Variable("test_inherit#5",
             Token("IDENTIFIER", "A", 9)), Token("RIGHT_PAREN", ")", 9), <<>>),
             Token("IDENTIFIER", "foo", 9)), Token("RIGHT_PAREN", ")", 9), <<>>)))>>)]

\* print "before";
\* var = 2;
\* print "after";
P_parse_gap ==
    [name |-> "parse_gap", shape |-> None, scan |-> Ok("tokens"),
     parse |-> Ok(<<
        Some(SPrint(ELiteral(String("before")))),
        None,
        Some(SPrint(ELiteral(String("after"))))>>)]

\* print "before";
\* {
\*   var = 2;
\* }
\* print "after";
P_parse_gap_nested ==
    [name |-> "parse_gap_nested", shape |-> None, scan |-> Ok("tokens"),
     parse |-> Err("Panic")]

\* print "before";
\* @
P_unexpected_char ==
    [name |-> "unexpected_char", shape |-> None, scan |-> Err("UnexpectedCharacter"), parse |-> Ok(<<>>)]

\* fun foo() {
\*   return 1;
\* }
\* print foo();
\* return 2;
P_test_invalid_ret ==
    [name |-> "test_invalid_ret", shape |-> None, scan |-> Ok("tokens"),
     parse |-> Ok(<<
        Some(FnStmt(Token("IDENTIFIER", "foo", 1), <<>>, <<SReturn(Token("RETURN",
             "return", 2), Some(ELiteral(Number(1))))>>)),
        Some(SPrint(ECall(Variable("test_invalid_ret#1", Token("IDENTIFIER", "foo",
             4)), Token("RIGHT_PAREN", ")", 4), <<>>))),
        Some(SReturn(Token("RETURN", "return", 5), Some(ELiteral(Number(2)))))>>)]

\* var a = 1;
\* print a;
\* {
\*   var a = a + 3;
\*   print a;
\* }
P_test_blcok2 ==
    [name |-> "test_blcok2", shape |-> None, scan |-> Ok("tokens"),
     parse |-> Ok(<<
        Some(SVar(Token("IDENTIFIER", "a", 1), Some(ELiteral(Number(1))))),
        Some(SPrint(Variable("test_blcok2#1", Token("IDENTIFIER", "a", 2)))),
        Some(SBlock(<<SVar(Token("IDENTIFIER", "a", 4),
             Some(EBinary(Variable("test_blcok2#2", Token("IDENTIFIER", "a", 4)),
             Token("PLUS", "+", 4), ELiteral(Number(3))))),
             SPrint(Variable("test_blcok2#3", Token("IDENTIFIER", "a", 5)))>>))>>)]

\* print "before";
\* fun foo() {
\*   var a = 1;
\*   var a = 2;
\* }
P_test_decl ==
    [name |-> "test_decl", shape |-> None, scan |-> Ok("tokens"),
     parse |-> Ok(<<
        Some(SPrint(ELiteral(String("before")))),
        Some(FnStmt(Token("IDENTIFIER", "foo", 2), <<>>, <<SVar(Token("IDENTIFIER",
             "a", 3), Some(ELiteral(Number(1)))), SVar(Token("IDENTIFIER", "a", 4),
             Some(ELiteral(Number(2))))>>))>>)]

\* class Foo {
\*   init(x) {
\*     this.x = x;
\*     return 1;
\*   }
\* }
\* var foo = Foo(1);
\* print foo.x;
P_test_init2 ==
    [name |-> "test_init2", shape |-> None, scan |-> Ok("tokens"),
     parse |-> Ok(<<
        Some(ClassStmt(Token("IDENTIFIER", "Foo", 1), None,
             <<FnStmt(Token("IDENTIFIER", "init", 2), <<Token("IDENTIFIER", "x", 2)>>,
             <<SExpression(Set(This("test_init2#1", Token("THIS", "this", 3)),
             Token("IDENTIFIER", "x", 3), Variable("test_init2#2", Token("IDENTIFIER",
             "x", 3)))), SReturn(Token("RETURN", "return", 4),
             Some(ELiteral(Number(1))))>>)>>)),
        Some(SVar(Token("IDENTIFIER", "foo", 7),
             Some(ECall(Variable("test_init2#3", Token("IDENTIFIER", "Foo", 7)),
             Token("RIGHT_PAREN", ")", 7), <<ELiteral(Number(1))>>)))),
        Some(SPrint(Get(Variable("test_init2#4", Token("IDENTIFIER", "foo", 8)),
             Token("IDENTIFIER", "x", 8))))>>)]

\* print "before";
\* class A < A {}
P_inherit_self ==
    [name |-> "inherit_self", shape |-> None, scan |-> Ok("tokens"),
     parse |-> Ok(<<
        Some(SPrint(ELiteral(String("before")))),
        Some(ClassStmt(Token("IDENTIFIER", "A", 2), Some(Variable("inherit_self#1",
             Token("IDENTIFIER", "A", 2))), <<>>))>>)]

\* print "before";
\* print this;
P_this_at_top_level ==
    [name |-> "this_at_top_level", shape |-> None, scan |-> Ok("tokens"),
     parse |-> Ok(<<
        Some(SPrint(ELiteral(String("before")))),
        Some(SPrint(This("this_at_top_level#1", Token("THIS", "this", 2))))>>)]

\* class Foo { bar() { return this; } }
\* print "before";
\* fun notMethod() {
\*   print this;
\* }
P_this_in_top_level_function ==
    [name |-> "this_in_top_level_function", shape |-> None, scan |-> Ok("tokens"),
     parse |-> Ok(<<
        Some(ClassStmt(Token("IDENTIFIER", "Foo", 1), None,
             <<FnStmt(Token("IDENTIFIER", "bar", 1), <<>>, <<SReturn(Token("RETURN",
             "return", 1), Some(This("this_in_top_level_function#1", Token("THIS",
             "this", 1))))>>)>>)),
        Some(SPrint(ELiteral(String("before")))),
        Some(FnStmt(Token("IDENTIFIER", "notMethod", 3), <<>>,
             <<SPrint(This("this_in_top_level_function#2", Token("THIS", "this",
             4)))>>))>>)]

\* print "before";
\* super.m();
\* print "after";
P_super_at_top_level ==
    [name |-> "super_at_top_level", shape |-> None, scan |-> Ok("tokens"),
     parse |-> Ok(<<
        Some(SPrint(ELiteral(String("before")))),
        Some(SExpression(ECall(Super("super_at_top_level#1", Token("SUPER",
             "super", 2), Token("IDENTIFIER", "m", 2)), Token("RIGHT_PAREN", ")", 2),
             <<>>))),
        Some(SPrint(ELiteral(String("after"))))>>)]

\* class A {
\*   m() { super.m(); }
\* }
\* print "before";
\* A().m();
\* print "after";
P_super_no_superclass ==
    [name |-> "super_no_superclass", shape |-> None, scan |-> Ok("tokens"),
     parse |-> Ok(<<
        Some(ClassStmt(Token("IDENTIFIER", "A", 1), None,
             <<FnStmt(Token("IDENTIFIER", "m", 2), <<>>,
             <<SExpression(ECall(Super("super_no_superclass#1", Token("SUPER", "super",
             2), Token("IDENTIFIER", "m", 2)), Token("RIGHT_PAREN", ")", 2),
             <<>>))>>)>>)),
        Some(SPrint(ELiteral(String("before")))),
        Some(SExpression(ECall(Get(ECall(Variable("super_no_superclass#2",
             Token("IDENTIFIER", "A", 5)), Token("RIGHT_PAREN", ")", 5), <<>>),
             Token("IDENTIFIER", "m", 5)), Token("RIGHT_PAREN", ")", 5), <<>>))),
        Some(SPrint(ELiteral(String("after"))))>>)]

\* print "before";
\* fun f() {
\*   {
\*     print undefined_name;
\*   }
\*   print "in f";
\* }
\* f();
\* print "after";
P_runtime_error ==
    [name |-> "runtime_error", shape |-> None, scan |-> Ok("tokens"),
     parse |-> Ok(<<
        Some(SPrint(ELiteral(String("before")))),
        Some(FnStmt(Token("IDENTIFIER", "f", 2), <<>>,
             <<SBlock(<<SPrint(Variable("runtime_error#1", Token("IDENTIFIER",
             "undefined_name", 4)))>>), SPrint(ELiteral(String("in f")))>>)),
        Some(SExpression(ECall(Variable("runtime_error#2", Token("IDENTIFIER", "f",
             8)), Token("RIGHT_PAREN", ")", 8), <<>>))),
        Some(SPrint(ELiteral(String("after"))))>>)]

\* fun fib(n) {
\*   if (n <= 1) return n;
\*   return fib(n - 1) + fib(n - 2);
\* }
\* for (var i = 0; i < 5; i = i + 1) {
\*   print fib(i);
\* }
P_test_rec ==
    [name |-> "test_rec", shape |-> None, scan |-> Ok("tokens"),
     parse |-> Ok(<<
        Some(FnStmt(Token("IDENTIFIER", "fib", 1), <<Token("IDENTIFIER", "n", 1)>>,
             <<SIf(EBinary(Variable("test_rec#1", Token("IDENTIFIER", "n", 2)),
             Token("LESS_EQUAL", "<=", 2), ELiteral(Number(1))), SReturn(Token("RETURN",
             "return", 2), Some(Variable("test_rec#2", Token("IDENTIFIER", "n", 2)))),
             None), SReturn(Token("RETURN", "return", 3),
             Some(EBinary(ECall(Variable("test_rec#3", Token("IDENTIFIER", "fib", 3)),
             Token("RIGHT_PAREN", ")", 3), <<EBinary(Variable("test_rec#4",
             Token("IDENTIFIER", "n", 3)), Token("MINUS", "-", 3),
             ELiteral(Number(1)))>>), Token("PLUS", "+", 3),
             ECall(Variable("test_rec#5", Token("IDENTIFIER", "fib", 3)),
             Token("RIGHT_PAREN", ")", 3), <<EBinary(Variable("test_rec#6",
             Token("IDENTIFIER", "n", 3)), Token("MINUS", "-", 3),
             ELiteral(Number(2)))>>))))>>)),
        Some(SBlock(<<SVar(Token("IDENTIFIER", "i", 5), Some(ELiteral(Number(0)))),
             SWhile(EBinary(Variable("test_rec#7", Token("IDENTIFIER", "i", 5)),
             Token("LESS", "<", 5), ELiteral(Number(5))),
             SBlock(<<SBlock(<<SPrint(ECall(Variable("test_rec#11", Token("IDENTIFIER",
             "fib", 6)), Token("RIGHT_PAREN", ")", 6), <<Variable("test_rec#12",
             Token("IDENTIFIER", "i", 6))>>))>>), SExpression(Assign("test_rec#10",
             Token("IDENTIFIER", "i", 5), EBinary(Variable("test_rec#9",
             Token("IDENTIFIER", "i", 5)), Token("PLUS", "+", 5),
             ELiteral(Number(1)))))>>))>>))>>)]


\* class P {}
\* var a = P();
\* var b = P();
\* print a == a;
\* print a == b;
\* fun make() { fun inner() {} return inner; }
\* print make() == make();
\* print a == P;
\* print 1 == "1";
P_equality ==
    [name |-> "equality", shape |-> None, scan |-> Ok("tokens"),
     parse |-> Ok(<<
        Some(ClassStmt(Token("IDENTIFIER", "P", 1), None, <<>>)),
        Some(SVar(Token("IDENTIFIER", "a", 2), Some(ECall(Variable("equality#1",
             Token("IDENTIFIER", "P", 2)), Token("RIGHT_PAREN", ")", 2), <<>>)))),
        Some(SVar(Token("IDENTIFIER", "b", 3), Some(ECall(Variable("equality#2",
             Token("IDENTIFIER", "P", 3)), Token("RIGHT_PAREN", ")", 3), <<>>)))),
        Some(SPrint(EBinary(Variable("equality#3", Token("IDENTIFIER", "a", 4)),
             Token("EQUAL_EQUAL", "==", 4), Variable("equality#4", Token("IDENTIFIER",
             "a", 4))))),
        Some(SPrint(EBinary(Variable("equality#5", Token("IDENTIFIER", "a", 5)),
             Token("EQUAL_EQUAL", "==", 5), Variable("equality#6", Token("IDENTIFIER",
             "b", 5))))),
        Some(FnStmt(Token("IDENTIFIER", "make", 6), <<>>,
             <<FnStmt(Token("IDENTIFIER", "inner", 6), <<>>, <<>>),
             SReturn(Token("RETURN", "return", 6), Some(Variable("equality#7",
             Token("IDENTIFIER", "inner", 6))))>>)),
        Some(SPrint(EBinary(ECall(Variable("equality#8", Token("IDENTIFIER",
             "make", 7)), Token("RIGHT_PAREN", ")", 7), <<>>), Token("EQUAL_EQUAL",
             "==", 7), ECall(Variable("equality#9", Token("IDENTIFIER", "make", 7)),
             Token("RIGHT_PAREN", ")", 7), <<>>)))),
        Some(SPrint(EBinary(Variable("equality#10", Token("IDENTIFIER", "a", 8)),
             Token("EQUAL_EQUAL", "==", 8), Variable("equality#11", Token("IDENTIFIER",
             "P", 8))))),
        Some(SPrint(EBinary(ELiteral(Number(1)), Token("EQUAL_EQUAL", "==", 9),
             ELiteral(String("1")))))>>)]

\* var x = "old";
\* var x = "new";
\* print x;
\* {
\*   var x = "inner";
\*   var y = x;
\*   print y;
\* }
\* print x;
P_redefine ==
    [name |-> "redefine", shape |-> None, scan |-> Ok("tokens"),
     parse |-> Ok(<<
        Some(SVar(Token("IDENTIFIER", "x", 1), Some(ELiteral(String("old"))))),
        Some(SVar(Token("IDENTIFIER", "x", 2), Some(ELiteral(String("new"))))),
        Some(SPrint(Variable("redefine#1", Token("IDENTIFIER", "x", 3)))),
        Some(SBlock(<<SVar(Token("IDENTIFIER", "x", 5),
             Some(ELiteral(String("inner")))), SVar(Token("IDENTIFIER", "y", 6),
             Some(Variable("redefine#2", Token("IDENTIFIER", "x", 6)))),
             SPrint(Variable("redefine#3", Token("IDENTIFIER", "y", 7)))>>)),
        Some(SPrint(Variable("redefine#4", Token("IDENTIFIER", "x", 9))))>>)]

\* class Base {
\*   m() { return "Base.m"; }
\*   n() { return "Base.n"; }
\*   who() { return this.tag; }
\* }
\* class Mid < Base {
\*   n() { return "Mid.n"; }
\* }
\* class C < Mid {
\*   f() { return "method f"; }
\* }
\* var c = C();
\* c.tag = "c";
\* print c.f();
\* c.f = "field f";
\* print c.f;
\* print c.n();
\* print c.m();
\* print c.who();
\* print c.missing;
\* print "after";
P_property ==
    [name |-> "property", shape |-> None, scan |-> Ok("tokens"),
     parse |-> Ok(<<
        Some(ClassStmt(Token("IDENTIFIER", "Base", 1), None,
             <<FnStmt(Token("IDENTIFIER", "m", 2), <<>>, <<SReturn(Token("RETURN",
             "return", 2), Some(ELiteral(String("Base.m"))))>>),
             FnStmt(Token("IDENTIFIER", "n", 3), <<>>, <<SReturn(Token("RETURN",
             "return", 3), Some(ELiteral(String("Base.n"))))>>),
             FnStmt(Token("IDENTIFIER", "who", 4), <<>>, <<SReturn(Token("RETURN",
             "return", 4), Some(Get(This("property#1", Token("THIS", "this", 4)),
             Token("IDENTIFIER", "tag", 4))))>>)>>)),
        Some(ClassStmt(Token("IDENTIFIER", "Mid", 6), Some(Variable("property#2",
             Token("IDENTIFIER", "Base", 6))), <<FnStmt(Token("IDENTIFIER", "n", 7),
             <<>>, <<SReturn(Token("RETURN", "return", 7),
             Some(ELiteral(String("Mid.n"))))>>)>>)),
        Some(ClassStmt(Token("IDENTIFIER", "C", 9), Some(Variable("property#3",
             Token("IDENTIFIER", "Mid", 9))), <<FnStmt(Token("IDENTIFIER", "f", 10),
             <<>>, <<SReturn(Token("RETURN", "return", 10),
             Some(ELiteral(String("method f"))))>>)>>)),
        Some(SVar(Token("IDENTIFIER", "c", 12), Some(ECall(Variable("property#4",
             Token("IDENTIFIER", "C", 12)), Token("RIGHT_PAREN", ")", 12), <<>>)))),
        Some(SExpression(Set(Variable("property#5", Token("IDENTIFIER", "c", 13)),
             Token("IDENTIFIER", "tag", 13), ELiteral(String("c"))))),
        Some(SPrint(ECall(Get(Variable("property#6", Token("IDENTIFIER", "c", 14)),
             Token("IDENTIFIER", "f", 14)), Token("RIGHT_PAREN", ")", 14), <<>>))),
        Some(SExpression(Set(Variable("property#7", Token("IDENTIFIER", "c", 15)),
             Token("IDENTIFIER", "f", 15), ELiteral(String("field f"))))),
        Some(SPrint(Get(Variable("property#8", Token("IDENTIFIER", "c", 16)),
             Token("IDENTIFIER", "f", 16)))),
        Some(SPrint(ECall(Get(Variable("property#9", Token("IDENTIFIER", "c", 17)),
             Token("IDENTIFIER", "n", 17)), Token("RIGHT_PAREN", ")", 17), <<>>))),
        Some(SPrint(ECall(Get(Variable("property#10", Token("IDENTIFIER", "c",
             18)), Token("IDENTIFIER", "m", 18)), Token("RIGHT_PAREN", ")", 18), <<>>))),
        Some(SPrint(ECall(Get(Variable("property#11", Token("IDENTIFIER", "c",
             19)), Token("IDENTIFIER", "who", 19)), Token("RIGHT_PAREN", ")", 19),
             <<>>))),
        Some(SPrint(Get(Variable("property#12", Token("IDENTIFIER", "c", 20)),
             Token("IDENTIFIER", "missing", 20)))),
        Some(SPrint(ELiteral(String("after"))))>>)]

(***************************************************************************)
(* A family of programs: one statement (the leaf) under a path of          *)
(* enclosing declarations and blocks, placed after the next inner one.     *)
(* For path <<"fun", "init">>, depth 1 and leaf "return_value" the source  *)
(* is                                                                      *)
(*     print "before";                                                     *)
(*     class Base { m() {} }                                               *)
(*     fun f1() {                                                          *)
(*       class C2 { init() {} }                                            *)
(*       return 1;                                                         *)
(*     }                                                                   *)
(* and the tree is what parse returns for it.                              *)
(***************************************************************************)
MaxNest == 2

Wrappers == {"block", "fun", "method", "init", "submethod"}
Leaves == {"return", "return_value", "this", "super"}

\* block: { ... }   fun: fun fD() { ... }   method: class CD { m() { ... } }
\* init: class CD { init() { ... } }   submethod: class CD < Base { m() { ... } }
Wrap(w, d, body) ==
    LET ident(s) == Token("IDENTIFIER", s, d)
        nm == ToString(d)
    IN CASE w = "block" -> SBlock(body)
         [] w = "fun" -> FnStmt(ident("f" \o nm), <<>>, body)
         [] w = "method" ->
                ClassStmt(ident("C" \o nm), None, <<FnStmt(ident("m"), <<>>, body)>>)
         [] w = "init" ->
                ClassStmt(ident("C" \o nm), None, <<FnStmt(ident("init"), <<>>, body)>>)
         [] w = "submethod" ->
                ClassStmt(ident("C" \o nm),
                          Some(Variable("sup#" \o nm, ident("Base"))),
                          <<FnStmt(ident("m"), <<>>, body)>>)

\* return;   return 1;   print this;   super.m;
Leaf(l, d) ==
    CASE l = "return" -> SReturn(Token("RETURN", "return", d + 1), None)
      [] l = "return_value" ->
             SReturn(Token("RETURN", "return", d + 1), Some(ELiteral(Number(1))))
      [] l = "this" -> SPrint(This("leaf", Token("THIS", "this", d + 1)))
      [] l = "super" ->
             SExpression(Super("leaf", Token("SUPER", "super", d + 1),
                               Token("IDENTIFIER", "m", d + 1)))

RECURSIVE NestBody(_, _, _, _)
NestBody(path, depth, leaf, d) ==
    (IF path = <<>> THEN <<>>
     ELSE <<Wrap(Head(path), d + 1, NestBody(Tail(path), depth, leaf, d + 1))>>)
    \o (IF d = depth THEN <<Leaf(leaf, d)>> ELSE <<>>)

NestShapes ==
    {sh \in [path : UNION {[1..n -> Wrappers] : n \in 0..MaxNest},
             depth : 0..MaxNest, leaf : Leaves] : sh.depth <= Len(sh.path)}

NestProgram(sh) ==
    [name |-> "nest", shape |-> Some(sh), scan |-> Ok("tokens"),
     parse |-> Ok(<<Some(SPrint(ELiteral(String("before")))),
                    Some(ClassStmt(Token("IDENTIFIER", "Base", 0), None,
                                   <<FnStmt(Token("IDENTIFIER", "m", 0), <<>>, <<>>)>>))>>
                  \o [i \in 1..Len(NestBody(sh.path, sh.depth, sh.leaf, 0)) |->
                         Some(NestBody(sh.path, sh.depth, sh.leaf, 0)[i])])]

(***************************************************************************)
(* A family of programs that declare the name x twice: a first            *)
(* declaration (none, a variable, a function, a class or a parameter) and  *)
(* a second one, placed in the same scope or in an inner one.  For first   *)
(* "var", second "fun" and place "inner" the source is                     *)
(*     print "before";                                                     *)
(*     { var x = 1; { fun x() {} } }                                       *)
(* The second declaration "var_self" is  var x = x + 3;                    *)
(***************************************************************************)
Decl(kind, line) ==
    LET x == Token("IDENTIFIER", "x", line)
    IN CASE kind = "var" -> <<SVar(x, Some(ELiteral(Number(1))))>>
         [] kind = "fun" -> <<FnStmt(x, <<>>, <<>>)>>
         [] kind = "class" -> <<ClassStmt(x, None, <<>>)>>
         [] kind = "var_self" ->
                <<SVar(x, Some(EBinary(Variable("decl#self", x), Token("PLUS", "+", line),
                                       ELiteral(Number(3)))))>>
         [] kind = "param" -> <<FnStmt(Token("IDENTIFIER", "g", line), <<x>>, <<>>)>>
         [] OTHER -> <<>>

\* global: D1 D2     block: { D1 D2 }     function: fun f() { D1 D2 }
\* inner: { D1 { D2 } }     global_inner: D1 { D2 }
\* A first declaration "param" makes x the parameter of the enclosing f, and
\* a second one in the same scope its second parameter; in an inner scope
\* the second "param" is  fun g(x) {}.
DeclBody(sh) ==
    LET f(params, body) == FnStmt(Token("IDENTIFIER", "f", 2), params, body)
        x == Token("IDENTIFIER", "x", 2)
        D1 == Decl(sh.first, 2)
        D2 == Decl(sh.second, 3)
    IN CASE sh.place = "global" -> D1 \o D2
         [] sh.place = "block" -> <<SBlock(D1 \o D2)>>
         [] sh.place = "function" ->
                IF sh.first = "param"
                THEN IF sh.second = "param" THEN <<f(<<x, x>>, <<>>)>>
                     ELSE <<f(<<x>>, D2)>>
                ELSE <<f(<<>>, D1 \o D2)>>
         [] sh.place = "inner" ->
                IF sh.first = "param" THEN <<f(<<x>>, <<SBlock(D2)>>)>>
                ELSE <<SBlock(D1 \o <<SBlock(D2)>>)>>
         [] sh.place = "global_inner" -> D1 \o <<SBlock(D2)>>

\* A parameter needs a function to belong to.
DeclShapes ==
    {sh \in [first : {"none", "var", "fun", "class", "param"},
             second : {"var", "fun", "class", "param", "var_self"},
             place : {"global", "block", "function", "inner", "global_inner"}] :
        /\ sh.first = "param" => sh.place \in {"function", "inner"}
        /\ sh.second = "param" /\ sh.place \in {"global", "block", "function"}
              => sh.first = "param" /\ sh.place = "function"}

DeclProgram(sh) ==
    [name |-> "decl", shape |-> Some(sh), scan |-> Ok("tokens"),
     parse |-> Ok(<<Some(SPrint(ELiteral(String("before"))))>>
                  \o [i \in 1..Len(DeclBody(sh)) |-> Some(DeclBody(sh)[i])])]

(***************************************************************************)
(* A family of programs that call a callee with n arguments:               *)
(*     print "before";                                                     *)
(*     fun f0() { print "f0"; }                                            *)
(*     fun f2(a, b) { print "f2"; }                                        *)
(*     class A {}                                                          *)
(*     class B { init(x) { print "init"; } }                               *)
(*     f2(1, 2, 3);                                                        *)
(*     print "after";                                                      *)
(* The callees are f0, f2, clock, A and B.                                 *)
(***************************************************************************)
MaxArgs == 3

CallShapes == [callee : {"f0", "f2", "clock", "A", "B"}, nargs : 0..MaxArgs]

CallProgram(sh) ==
    LET ident(n, l) == Token("IDENTIFIER", n, l)
        body(n, l) == <<SPrint(ELiteral(String(n)))>>
    IN [name |-> "call", shape |-> Some(sh), scan |-> Ok("tokens"),
        parse |-> Ok(<<
           Some(SPrint(ELiteral(String("before")))),
           Some(FnStmt(ident("f0", 2), <<>>, body("f0", 2))),
           Some(FnStmt(ident("f2", 3), <<ident("a", 3), ident("b", 3)>>, body("f2", 3))),
           Some(ClassStmt(ident("A", 4), None, <<>>)),
           Some(ClassStmt(ident("B", 5), None,
                <<FnStmt(ident("init", 5), <<ident("x", 5)>>, body("init", 5))>>)),
           Some(SExpression(ECall(Variable("call#callee", ident(sh.callee, 6)),
                                  Token("RIGHT_PAREN", ")", 6),
                                  [i \in 1..sh.nargs |-> ELiteral(Number(i))]))),
           Some(SPrint(ELiteral(String("after"))))>>)]

(***************************************************************************)
(* A family of programs with one logical expression whose right operand    *)
(* has a side effect:                                                      *)
(*     var s = "unset";                                                    *)
(*     print 0 or (s = "b");                                               *)
(*     print s;                                                            *)
(***************************************************************************)
\* The literal a token of the source is parsed to.
Primary(text) ==
    CASE text = "nil" -> Nil
      [] text = "false" -> Boolean(FALSE)
      [] text = "true" -> Boolean(TRUE)
      [] text = "0" -> Number(0)
      [] text = "1" -> Number(1)
      [] text = "2" -> Number(2)
      [] text = "\"\"" -> String("")
      [] text = "\"a\"" -> String("a")
      [] text = "\"b\"" -> String("b")

LogicalShapes ==
    [op : {"OR", "AND"},
     left : {"nil", "false", "true", "0", "1", "\"\"", "\"a\""},
     right : {"nil", "false", "2", "\"b\""}]

LogicalProgram(sh) ==
    LET s == Token("IDENTIFIER", "s", 2)
    IN [name |-> "logical", shape |-> Some(sh), scan |-> Ok("tokens"),
        parse |-> Ok(<<
           Some(SVar(Token("IDENTIFIER", "s", 1), Some(ELiteral(String("unset"))))),
           Some(SPrint(ELogical(ELiteral(Primary(sh.left)),
                                Token(sh.op, IF sh.op = "OR" THEN "or" ELSE "and", 2),
                                EGrouping(Assign("logical#s", s, ELiteral(Primary(sh.right))))))),
           Some(SPrint(Variable("logical#read", Token("IDENTIFIER", "s", 3))))>>)]

(***************************************************************************)
(* A family of programs that assign to x, with x declared at global scope  *)
(* (bound) or nowhere.  For place "function" and bound the source is       *)
(*     var y = "y";                                                        *)
(*     var x = "old";                                                      *)
(*     fun f(p) { x = 1; }                                                 *)
(*     f(0);                                                               *)
(*     print "after";                                                      *)
(* The other places: x = 1; at top level, { var z = "z"; x = 1; } and      *)
(* { var x = (x = 1); }, where the resolver gives the assignment the       *)
(* distance 0 and the block's environment does not hold x yet.             *)
(***************************************************************************)
AssignShapes == [place : {"global", "block", "function", "own_initializer"}, bound : BOOLEAN]

AssignProgram(sh) ==
    LET ident(n, l) == Token("IDENTIFIER", n, l)
        var(n, l, v) == SVar(ident(n, l), Some(ELiteral(String(v))))
        x_is_1 == Assign("assign#x", ident("x", 3), ELiteral(Number(1)))
        body == CASE sh.place = "global" -> <<SExpression(x_is_1)>>
                  [] sh.place = "block" ->
                        <<SBlock(<<var("z", 3, "z"), SExpression(x_is_1)>>)>>
                  [] sh.place = "function" ->
                        <<FnStmt(ident("f", 3), <<ident("p", 3)>>, <<SExpression(x_is_1)>>),
                          SExpression(ECall(Variable("assign#f", ident("f", 4)),
                                            Token("RIGHT_PAREN", ")", 4),
                                            <<ELiteral(Number(0))>>))>>
                  [] sh.place = "own_initializer" ->
                        <<SBlock(<<SVar(ident("x", 3), Some(EGrouping(x_is_1)))>>)>>
        all == <<var("y", 1, "y")>>
               \o (IF sh.bound THEN <<var("x", 2, "old")>> ELSE <<>>)
               \o body \o <<SPrint(ELiteral(String("after")))>>
    IN [name |-> "assign", shape |-> Some(sh), scan |-> Ok("tokens"),
        parse |-> Ok([i \in 1..Len(all) |-> Some(all[i])])]

(***************************************************************************)
(* A family of programs that read an undefined name under a path of        *)
(* blocks, loops, conditionals, calls and constructions, every level       *)
(* going on with print "after".  For the path <<"call", "while">> the      *)
(* source is                                                               *)
(*     print "before";                                                     *)
(*     fun f1() {                                                          *)
(*       while (true) { print undefined_name; print "after"; }             *)
(*       print "after";                                                    *)
(*     }                                                                   *)
(*     f1();                                                               *)
(*     print "after";                                                      *)
(***************************************************************************)
RECURSIVE RaiseBody(_, _)
RaiseBody(path, d) ==
    LET ident(n) == Token("IDENTIFIER", n, d)
        nm == ToString(d)
        inner == RaiseBody(Tail(path), d + 1) \o <<SPrint(ELiteral(String("after")))>>
        called(n) == SExpression(ECall(Variable("raise#" \o nm, ident(n \o nm)),
                                       Token("RIGHT_PAREN", ")", d), <<>>))
        w == Head(path)
    IN IF path = <<>>
       THEN <<SPrint(Variable("raise#read", Token("IDENTIFIER", "undefined_name", d)))>>
       ELSE CASE w = "block" -> <<SBlock(inner)>>
              [] w = "while" -> <<SWhile(ELiteral(Boolean(TRUE)), SBlock(inner))>>
              [] w = "if" -> <<SIf(ELiteral(Boolean(TRUE)), SBlock(inner), None)>>
              [] w = "call" -> <<FnStmt(ident("f" \o nm), <<>>, inner), called("f")>>
              [] w = "init" ->
                     <<ClassStmt(ident("C" \o nm), None,
                                 <<FnStmt(ident("init"), <<>>, inner)>>),
                       called("C")>>

RaiseProgram(path) ==
    LET all == <<SPrint(ELiteral(String("before")))>> \o RaiseBody(path, 1)
               \o <<SPrint(ELiteral(String("after")))>>
    IN [name |-> "raise", shape |-> Some(path), scan |-> Ok("tokens"),
        parse |-> Ok([i \in 1..Len(all) |-> Some(all[i])])]

(***************************************************************************)
(* A family of programs with a for loop and with the loop written out by   *)
(* hand, both scanned and parsed from their text.  For the shape           *)
(* [init |-> "var", cond |-> TRUE, incr |-> TRUE, body |-> "print"] the    *)
(* source is                                                               *)
(*     var i = 0;                                                          *)
(*     fun f() { for (var i = 0; i < 2; i = i + 1) print i; }              *)
(*     f(); print i; i = 0;                                                *)
(*     fun g() { { var i = 0; while (i < 2) { print i; i = i + 1; } } }    *)
(*     g(); print i;                                                       *)
(* The shapes are those whose loop ends: by its condition or by a return   *)
(* in its body, i going up in the increment or in the body.                *)
(***************************************************************************)
ForShapes ==
    {sh \in [init : {"none", "var", "expr"}, cond : BOOLEAN, incr : BOOLEAN,
             body : {"print", "step", "return", "step_return"}] :
        /\ sh.cond \/ sh.body \in {"return", "step_return"}
        /\ sh.incr \/ sh.body \in {"step", "step_return"}}

ForInit(sh) ==
    CASE sh.init = "none" -> <<>>
      [] sh.init = "var" -> <<"v", "a", "r", " ", "i", " ", "=", " ", "0",
                              ";">>
      [] sh.init = "expr" -> <<"i", " ", "=", " ", "0", ";">>
ForCond == <<"i", " ", "<", " ", "2">>
ForIncr == <<"i", " ", "=", " ", "i", " ", "+", " ", "1">>
ForBody(sh) ==
    CASE sh.body = "print" -> <<"p", "r", "i", "n", "t", " ", "i", ";">>
      [] sh.body = "step" ->
        <<"{", " ", "p", "r", "i", "n", "t", " ", "i", ";", " ", "i", " ",
          "=", " ", "i", " ", "+", " ", "1", ";", " ", "}">>
      [] sh.body = "return" ->
        <<"{", " ", "p", "r", "i", "n", "t", " ", "i", ";", " ", "i", "f",
          " ", "(", "i", " ", ">", "=", " ", "1", ")", " ", "r", "e", "t",
          "u", "r", "n", ";", " ", "}">>
      [] sh.body = "step_return" ->
        <<"{", " ", "p", "r", "i", "n", "t", " ", "i", ";", " ", "i", " ",
          "=", " ", "i", " ", "+", " ", "1", ";", " ", "i", "f", " ", "(",
          "i", " ", ">", "=", " ", "2", ")", " ", "r", "e", "t", "u", "r",
          "n", ";", " ", "}">>

\* for (I; C; S) B
ForText(sh) ==
    <<"f", "o", "r", " ", "(">>
    \o (IF sh.init = "none" THEN <<";">> ELSE ForInit(sh)) \o <<" ">>
    \o (IF sh.cond THEN ForCond ELSE <<>>) \o <<";", " ">>
    \o (IF sh.incr THEN ForIncr ELSE <<>>) \o <<")", " ">> \o ForBody(sh)
\* { I; while (C) { B; S; } }
WhileText(sh) ==
    <<"{", " ">> \o ForInit(sh) \o <<" ", "w", "h", "i", "l", "e", " ", "(">>
    \o (IF sh.cond THEN ForCond ELSE <<"t", "r", "u", "e">>)
    \o <<")", " ", "{", " ">> \o ForBody(sh) \o <<" ">>
    \o (IF sh.incr THEN ForIncr \o <<";">> ELSE <<>>) \o <<" ", "}", " ", "}">>

ForSource(sh) ==
    <<"v", "a", "r", " ", "i", " ", "=", " ", "0", ";", " ", "f", "u", "n",
      " ", "f", "(", ")", " ", "{", " ">>
    \o ForText(sh)
    \o <<" ", "}", " ", "f", "(", ")", ";", " ", "p", "r", "i", "n", "t",
         " ", "i", ";", " ", "i", " ", "=", " ", "0", ";", " ", "f", "u",
         "n", " ", "g", "(", ")", " ", "{", " ">>
    \o WhileText(sh)
    \o <<" ", "}", " ", "g", "(", ")", ";", " ", "p", "r", "i", "n", "t",
         " ", "i", ";">>

\* A variable declared in the initializer, read after the loop: one of the
\* same name exists outside ("shadow": var i = "outer"; before the loop), or
\* none does ("unbound").
ForScopeSource(kind) ==
    (IF kind = "shadow" THEN <<"v", "a", "r", " ", "i", " ", "=", " ", "\"",
                               "o", "u", "t", "e", "r", "\"", ";", " ">>
     ELSE <<>>)
    \o <<"f", "o", "r", " ", "(", "v", "a", "r", " ", "i", " ", "=", " ",
         "0", ";", " ", "i", " ", "<", " ", "2", ";", " ", "i", " ", "=",
         " ", "i", " ", "+", " ", "1", ")", " ", "p", "r", "i", "n", "t",
         " ", "i", ";", " ", "p", "r", "i", "n", "t", " ", "i", ";">>

\* run's scan_tokens and parse on the text
Parsed_text(name, shape, tokens) ==
    [name |-> name, shape |-> Some(shape),
     scan |-> IF tokens.ok THEN Ok("tokens") ELSE tokens,
     parse |-> IF tokens.ok THEN Parser_parse(tokens.v) ELSE Err("Panic")]
ForProgram(sh) == Parsed_text("for", sh, scan_tokens(ForSource(sh)))
ForScopeProgram(kind) == Parsed_text("for_scope", kind, scan_tokens(ForScopeSource(kind)))

(***************************************************************************)
(* run (runner.rs) and interpret, a step at a time.                        *)
(***************************************************************************)
CuratedPrograms ==
    {P_local_fun2,
     P_shadow_later,
     P_test_block,
     P_local_fun,
     P_two_counters,
     P_return_inside,
     P_test_init3,
     P_init_return,
     P_test_this,
     P_inherit_super,
     P_test_inherit,
     P_parse_gap,
     P_parse_gap_nested,
     P_unexpected_char,
     P_test_invalid_ret,
     P_test_blcok2,
     P_test_decl,
     P_test_init2,
     P_inherit_self,
     P_this_at_top_level,
     P_this_in_top_level_function,
     P_super_at_top_level,
     P_super_no_superclass,
     P_runtime_error,
     P_test_rec,
     P_equality,
     P_redefine,
     P_property}

Programs ==
    CuratedPrograms
    \cup {NestProgram(sh) : sh \in NestShapes}
    \cup {DeclProgram(sh) : sh \in DeclShapes}
    \cup {CallProgram(sh) : sh \in CallShapes}
    \cup {LogicalProgram(sh) : sh \in LogicalShapes}
    \cup {AssignProgram(sh) : sh \in AssignShapes}
    \cup {RaiseProgram(path) :
             path \in UNION {[1..n -> {"block", "while", "if", "call", "init"}] :
                               n \in 0..MaxNest}}
    \cup {ForProgram(sh) : sh \in ForShapes}
    \cup {ForScopeProgram(kind) : kind \in {"shadow", "unbound"}}

Init ==
    /\ prog \in Programs
    /\ pc = "scan_tokens"
    /\ stmts = <<>>
    /\ ip = 1
    /\ dist = EmptyMap
    /\ rerr = None
    /\ interp = Interpreter_default
    /\ stdin = <<>>
    /\ status = None
    /\ scanner = None
    /\ parser = None

\* let tokens = scanner.scan_tokens().unwrap();
run_scan_tokens ==
    /\ pc = "scan_tokens"
    /\ pc' = IF prog.scan.ok THEN "parse" ELSE "panic"
    /\ UNCHANGED <<prog, stmts, ip, dist, rerr, interp, stdin, status, scanner, parser>>

\* let stmts = parser.parse().unwrap();  A declaration that fails inside a
\* block makes block() unwrap None.
run_parse ==
    /\ pc = "parse"
    /\ pc' = IF prog.parse.ok THEN "collect" ELSE "panic"
    /\ UNCHANGED <<prog, stmts, ip, dist, rerr, interp, stdin, status, scanner, parser>>

\* let stmts: Option<Vec<_>> = stmts.into_iter().collect();
\* if stmts.is_none() { eprintln!("Error parsing"); return; }
run_collect ==
    /\ pc = "collect"
    /\ IF \E i \in 1..Len(prog.parse.v) : prog.parse.v[i] = None
       THEN pc' = "error_parsing" /\ stmts' = stmts
       ELSE /\ pc' = "resolve"
            /\ stmts' = [i \in 1..Len(prog.parse.v) |-> unwrap(prog.parse.v[i])]
    /\ UNCHANGED <<prog, ip, dist, rerr, interp, stdin, status, scanner, parser>>

\* As if run went on to interpret whatever the resolver returned.
run_resolve_unchecked ==
    /\ pc = "resolve"
    /\ LET R == resolve(Resolver_new, stmts)
       IN /\ dist' = R.dist @@ dist
          /\ rerr' = R.err
          /\ pc' = "interpret"
    /\ UNCHANGED <<prog, stmts, ip, interp, stdin, status, scanner, parser>>

\* resolver.resolve(stmts).unwrap();
run_resolve ==
    /\ pc = "resolve"
    /\ LET R == resolve(Resolver_new, stmts)
       IN /\ dist' = R.dist @@ dist
          /\ rerr' = R.err
          /\ pc' = IF failed(R) THEN "panic" ELSE "interpret"
    /\ UNCHANGED <<prog, stmts, ip, interp, stdin, status, scanner, parser>>

\* As if the loop went on to the next statement after an Err.
interpret_on ==
    /\ pc = "interpret"
    /\ ip <= Len(stmts)
    /\ LET r == execute(interp, stmts[ip])
       IN /\ interp' = IF r.ok THEN r.I
                       ELSE [r.I EXCEPT !.trace =
                                Append(@, [ev |-> "runtime_error", error |-> r.v])]
          /\ pc' = "interpret"
          /\ ip' = ip + 1
    /\ UNCHANGED <<prog, stmts, dist, rerr, stdin, status, scanner, parser>>

\* One iteration of interpret's loop: break at the first Err.
interpret ==
    /\ pc = "interpret"
    /\ ip <= Len(stmts)
    /\ LET r == execute(interp, stmts[ip])
       IN /\ interp' = IF r.ok THEN r.I
                       ELSE [r.I EXCEPT !.trace =
                                Append(@, [ev |-> "runtime_error", error |-> r.v])]
          /\ pc' = IF r.ok THEN "interpret" ELSE "runtime_error"
          /\ ip' = ip + 1
    /\ UNCHANGED <<prog, stmts, dist, rerr, stdin, status, scanner, parser>>

interpret_end ==
    /\ pc = "interpret"
    /\ ip > Len(stmts)
    /\ pc' = "done"
    /\ UNCHANGED <<prog, stmts, ip, dist, rerr, interp, stdin, status, scanner, parser>>

\* The pc values at which run has returned to its caller.
Returned == {"error_parsing", "runtime_error", "done"}

\* run_file and main return after run: the process ends with status 0.  A
\* panic (a failed unwrap) ends it with the status of a Rust panic, 101.
run_file_exit ==
    /\ pc \in Returned \cup {"panic"}
    /\ status = None
    /\ status' = Some(IF pc = "panic" THEN 101 ELSE 0)
    /\ UNCHANGED <<prog, pc, stmts, ip, dist, rerr, interp, stdin, scanner, parser>>

Next ==
    \/ run_scan_tokens
    \/ run_parse
    \/ run_collect
    \/ run_resolve
    \/ interpret
    \/ interpret_end
    \/ run_file_exit

Spec == Init /\ [][Next]_vars

(***************************************************************************)
(* run_prompt (runner.rs): the lines of standard input are run one after   *)
(* the other by one interpreter.  A line is the program it is parsed to;   *)
(* read_error stands for a read_line that returns Err.                     *)
(***************************************************************************)
MaxLines == 2

\* print "a";   var v = 1;   print v;   @   print ;   { print ; }
\* return 1;   print -nil;
ReplLines ==
    LET line(text, scan, parse) ==
            [name |-> "line", shape |-> Some(text), scan |-> scan, parse |-> parse]
        v == Token("IDENTIFIER", "v", 1)
    IN {line("print \"a\";", Ok("tokens"), Ok(<<Some(SPrint(ELiteral(String("a"))))>>)),
        line("var v = 1;", Ok("tokens"), Ok(<<Some(SVar(v, Some(ELiteral(Number(1)))))>>)),
        line("print v;", Ok("tokens"), Ok(<<Some(SPrint(Variable("line#v", v)))>>)),
        line("@", Err("UnexpectedCharacter"), Ok(<<>>)),
        line("print ;", Ok("tokens"), Ok(<<None>>)),
        line("{ print ; }", Ok("tokens"), Err("Panic")),
        line("return 1;", Ok("tokens"),
             Ok(<<Some(SReturn(Token("RETURN", "return", 1), Some(ELiteral(Number(1)))))>>)),
        line("print -nil;", Ok("tokens"),
             Ok(<<Some(SPrint(EUnary(Token("MINUS", "-", 1), ELiteral(Nil))))>>)),
        line("read_error", Ok("tokens"), Ok(<<>>))}

\* Lines for sessions of three and four lines: one that defines a global
\* variable, a function and a class, one that ends with a runtime error
\* raised in a block inside a call inside a block, and one that uses what the
\* first has defined.

\* var v = 1; fun f() { return v + 1; } class K { m() { return "m"; } }
ReplLine_define ==
    [name |-> "line", shape |-> Some("define"), scan |-> Ok("tokens"),
     parse |-> Ok(<<
        Some(SVar(Token("IDENTIFIER", "v", 1), Some(ELiteral(Number(1))))),
        Some(FnStmt(Token("IDENTIFIER", "f", 1), <<>>, <<SReturn(Token("RETURN",
             "return", 1), Some(EBinary(Variable("repl_define#1", Token("IDENTIFIER",
             "v", 1)), Token("PLUS", "+", 1), ELiteral(Number(1)))))>>)),
        Some(ClassStmt(Token("IDENTIFIER", "K", 1), None,
             <<FnStmt(Token("IDENTIFIER", "m", 1), <<>>, <<SReturn(Token("RETURN",
             "return", 1), Some(ELiteral(String("m"))))>>)>>))>>)]

\* { var w = 2; fun g() { { print undefined; } } { g(); } }
ReplLine_raise ==
    [name |-> "line", shape |-> Some("raise"), scan |-> Ok("tokens"),
     parse |-> Ok(<<
        Some(SBlock(<<SVar(Token("IDENTIFIER", "w", 1), Some(ELiteral(Number(2)))),
             FnStmt(Token("IDENTIFIER", "g", 1), <<>>,
             <<SBlock(<<SPrint(Variable("repl_raise#1", Token("IDENTIFIER", "undefined",
             1)))>>)>>), SBlock(<<SExpression(ECall(Variable("repl_raise#2",
             Token("IDENTIFIER", "g", 1)), Token("RIGHT_PAREN", ")", 1), <<>>))>>)>>))>>)]

\* print v; print f(); print K().m();
ReplLine_use ==
    [name |-> "line", shape |-> Some("use"), scan |-> Ok("tokens"),
     parse |-> Ok(<<
        Some(SPrint(Variable("repl_use#1", Token("IDENTIFIER", "v", 1)))),
        Some(SPrint(ECall(Variable("repl_use#2", Token("IDENTIFIER", "f", 1)),
             Token("RIGHT_PAREN", ")", 1), <<>>))),
        Some(SPrint(ECall(Get(ECall(Variable("repl_use#3", Token("IDENTIFIER", "K",
             1)), Token("RIGHT_PAREN", ")", 1), <<>>), Token("IDENTIFIER", "m", 1)),
             Token("RIGHT_PAREN", ")", 1), <<>>)))>>)]

ReplSessions ==
    {<<ReplLine_define, ReplLine_use>>,
     <<ReplLine_define, ReplLine_raise, ReplLine_use>>,
     <<ReplLine_define, ReplLine_raise, ReplLine_raise, ReplLine_use>>}

\* let mut input = String::new(); let mut interpreter = Interpreter::default();
InitPrompt ==
    /\ stdin \in UNION {[1..n -> ReplLines] : n \in 0..MaxLines} \cup ReplSessions
    /\ prog = [name |-> "line", shape |-> Some(""), scan |-> Ok("tokens"), parse |-> Ok(<<>>)]
    /\ pc = "prompt"
    /\ stmts = <<>>
    /\ ip = 1
    /\ dist = EmptyMap
    /\ rerr = None
    /\ interp = Interpreter_default
    /\ status = None
    /\ scanner = None
    /\ parser = None

\* As if every line were run by an interpreter of its own.
run_prompt_new_interpreter ==
    /\ pc = "prompt"
    /\ LET say(lines) == [Interpreter_default EXCEPT !.out = interp.out \o lines,
                                                  !.trace = interp.trace]
       IN IF stdin = <<>>
          THEN /\ pc' = "eof"
               /\ interp' = say(<<"> ", "EOF">>)
               /\ UNCHANGED <<prog, stdin, scanner, parser>>
          ELSE IF unwrap(Head(stdin).shape) = "read_error"
          THEN /\ pc' = "prompt"
               /\ interp' = say(<<"> ", "Error reading input">>)
               /\ stdin' = Tail(stdin)
               /\ prog' = prog
          ELSE /\ pc' = "scan_tokens"
               /\ interp' = say(<<"> ">>)
               /\ stdin' = Tail(stdin)
               /\ prog' = Head(stdin)
    /\ stmts' = <<>>
    /\ ip' = 1
    /\ rerr' = None
    /\ UNCHANGED <<dist, status, scanner, parser>>

\* print!("> "); match stdin().read_line(&mut input): Ok(0) prints EOF and
\* breaks, Ok(_) calls run on the line, Err(_) goes to the next iteration.
run_prompt ==
    /\ pc = "prompt"
    /\ LET say(lines) == [interp EXCEPT !.out = @ \o lines]
       IN IF stdin = <<>>
          THEN /\ pc' = "eof"
               /\ interp' = say(<<"> ", "EOF">>)
               /\ UNCHANGED <<prog, stdin, scanner, parser>>
          ELSE IF unwrap(Head(stdin).shape) = "read_error"
          THEN /\ pc' = "prompt"
               /\ interp' = say(<<"> ", "Error reading input">>)
               /\ stdin' = Tail(stdin)
               /\ prog' = prog
          ELSE /\ pc' = "scan_tokens"
               /\ interp' = say(<<"> ">>)
               /\ stdin' = Tail(stdin)
               /\ prog' = Head(stdin)
    /\ stmts' = <<>>
    /\ ip' = 1
    /\ rerr' = None
    /\ UNCHANGED <<dist, status, scanner, parser>>

\* run has returned: input.clear(); and the next iteration of the loop.
run_prompt_clear ==
    /\ pc \in Returned
    /\ pc' = "prompt"
    /\ UNCHANGED <<prog, stmts, ip, dist, rerr, interp, stdin, status, scanner, parser>>

\* run_prompt and main return after the break: status 0.  A panic in run
\* ends the process, with the lines left unread.
run_prompt_exit ==
    /\ pc \in {"eof", "panic"}
    /\ status = None
    /\ status' = Some(IF pc = "panic" THEN 101 ELSE 0)
    /\ UNCHANGED <<prog, pc, stmts, ip, dist, rerr, interp, stdin, scanner, parser>>

NextPrompt ==
    \/ run_prompt
    \/ run_scan_tokens
    \/ run_parse
    \/ run_collect
    \/ run_resolve
    \/ interpret
    \/ interpret_end
    \/ run_prompt_clear
    \/ run_prompt_exit

SpecPrompt == InitPrompt /\ [][NextPrompt]_vars

(***************************************************************************)
(* run (runner.rs) on a source text, with the loops of scan_tokens and of  *)
(* parse taken one turn per step.  The sources are all texts of at most    *)
(* MaxChars characters of SourceChars, all texts of at most MaxWords words *)
(* of SourceWords separated by blanks, and the texts of Sources.           *)
(***************************************************************************)
MaxChars == 3
MaxWords == 4
SourceChars == {"1", ".", "\"", "\n", "a", "@"}
SourceWords == {<<"p", "r", "i", "n", "t">>, <<"1">>, <<";">>, <<"{">>, <<"}">>,
                <<")">>}

RECURSIVE join(_)
join(words) ==
    IF words = <<>> THEN <<>>
    ELSE IF Len(words) = 1 THEN words[1]
    ELSE words[1] \o <<" ">> \o join(Tail(words))

\* n times the item, separated by commas
list_of(item, n) == [i \in 1..(2 * n - 1) |-> IF i % 2 = 1 THEN item ELSE ","]

\* f(1,1,...,1); print 2;
CallSource(n) ==
    <<"f", "(">> \o list_of("1", n) \o <<")", ";">>
    \o <<" ", "p", "r", "i", "n", "t", " ", "2", ";">>
\* fun f(a,a,...,a) { print 1; } print 2;
FunctionSource(n) ==
    <<"f", "u", "n", " ", "f", "(">> \o list_of("a", n)
    \o <<")", " ", "{", " ", "p", "r", "i", "n", "t", " ", "1", ";", " ", "}">>
    \o <<" ", "p", "r", "i", "n", "t", " ", "2", ";">>

Sources ==
    {CallSource(n) : n \in {MaxArity, MaxArity + 1}}
    \cup {FunctionSource(n) : n \in {MaxArity, MaxArity + 1}}
    \cup {
        \* .1234
        <<".", "1", "2", "3", "4">>,
        \* 123.
        <<"1", "2", "3", ".">>,
        \* 1.2.3
        <<"1", ".", "2", ".", "3">>,
        \* 12.50 + 007
        <<"1", "2", ".", "5", "0", " ", "+", " ", "0", "0", "7">>,
        \* 1+1=2\n"abc
        <<"1", "+", "1", "=", "2", "\n", "\"", "a", "b", "c">>,
        \* var s = "one\ntwo\nthree
        <<"v", "a", "r", " ", "s", " ", "=", " ", "\"", "o", "n", "e", "\n",
          "t", "w", "o", "\n", "t", "h", "r", "e", "e">>,
        \* "closed" // comment\n!= <= >= == /
        <<"\"", "c", "l", "o", "s", "e", "d", "\"", " ", "/", "/", " ", "c",
          "o", "m", "m", "e", "n", "t", "\n", "!", "=", " ", "<", "=", " ",
          ">", "=", " ", "=", "=", " ", "/">>,
        \* print 1 # 2;
        <<"p", "r", "i", "n", "t", " ", "1", " ", "#", " ", "2", ";">>,
        \* print ; print 1;
        <<"p", "r", "i", "n", "t", " ", ";", " ", "p", "r", "i", "n", "t",
          " ", "1", ";">>,
        \* var = 1; var b = 2;
        <<"v", "a", "r", " ", "=", " ", "1", ";", " ", "v", "a", "r", " ",
          "b", " ", "=", " ", "2", ";">>,
        \* fun f() { print ; } print 1;
        <<"f", "u", "n", " ", "f", "(", ")", " ", "{", " ", "p", "r", "i",
          "n", "t", " ", ";", " ", "}", " ", "p", "r", "i", "n", "t", " ",
          "1", ";">>,
        \* { { var a = (1; } } print 1;
        <<"{", " ", "{", " ", "v", "a", "r", " ", "a", " ", "=", " ", "(",
          "1", ";", " ", "}", " ", "}", " ", "p", "r", "i", "n", "t", " ",
          "1", ";">>,
        \* class A { f() { return 1 } } print 1;
        <<"c", "l", "a", "s", "s", " ", "A", " ", "{", " ", "f", "(", ")",
          " ", "{", " ", "r", "e", "t", "u", "r", "n", " ", "1", " ", "}",
          " ", "}", " ", "p", "r", "i", "n", "t", " ", "1", ";">>,
        \* fun f(a, b) { if (a) return b; else { while (b) b = b - 1; } } f(1, 2)(3).x = nil;
        <<"f", "u", "n", " ", "f", "(", "a", ",", " ", "b", ")", " ", "{",
          " ", "i", "f", " ", "(", "a", ")", " ", "r", "e", "t", "u", "r",
          "n", " ", "b", ";", " ", "e", "l", "s", "e", " ", "{", " ", "w",
          "h", "i", "l", "e", " ", "(", "b", ")", " ", "b", " ", "=", " ",
          "b", " ", "-", " ", "1", ";", " ", "}", " ", "}", " ", "f", "(",
          "1", ",", " ", "2", ")", "(", "3", ")", ".", "x", " ", "=", " ",
          "n", "i", "l", ";">>,
        \* class B < A { init(n) { this.n = n or !true and -n <= 2 * (n + 1); } }
        <<"c", "l", "a", "s", "s", " ", "B", " ", "<", " ", "A", " ", "{",
          " ", "i", "n", "i", "t", "(", "n", ")", " ", "{", " ", "t", "h",
          "i", "s", ".", "n", " ", "=", " ", "n", " ", "o", "r", " ", "!",
          "t", "r", "u", "e", " ", "a", "n", "d", " ", "-", "n", " ", "<",
          "=", " ", "2", " ", "*", " ", "(", "n", " ", "+", " ", "1", ")",
          ";", " ", "}", " ", "}">>,
        \* for (var i = 0; i < 2; i = i + 1) print i;
        <<"f", "o", "r", " ", "(", "v", "a", "r", " ", "i", " ", "=", " ",
          "0", ";", " ", "i", " ", "<", " ", "2", ";", " ", "i", " ", "=",
          " ", "i", " ", "+", " ", "1", ")", " ", "p", "r", "i", "n", "t",
          " ", "i", ";">>,
        \* for (;;) 1 = 2;
        <<"f", "o", "r", " ", "(", ";", ";", ")", " ", "1", " ", "=", " ",
          "2", ";">>,
        \* a.b(
        <<"a", ".", "b", "(">>
    }

InitSyntax ==
    /\ \E source \in UNION {[1..n -> SourceChars] : n \in 0..MaxChars}
                     \cup {join(words) :
                             words \in UNION {[1..n -> SourceWords] : n \in 0..MaxWords}}
                     \cup Sources :
          /\ prog = [name |-> "source", source |-> source]
          /\ scanner = Some(Tokenizer_new(source))
    /\ pc = "scan_tokens"
    /\ stmts = <<>>
    /\ ip = 1
    /\ dist = EmptyMap
    /\ rerr = None
    /\ interp = Interpreter_default
    /\ stdin = <<>>
    /\ status = None
    /\ parser = None

\* while !self.is_at_end() { self.start = self.current; self.scan_token()?; }
\* and, at the end, the EOF token and Ok(tokens)
scan_tokens_turn ==
    /\ pc = "scan_tokens"
    /\ is_some(scanner)
    /\ unwrap(scanner).result = None
    /\ scanner' = Some(scan_tokens_iteration(unwrap(scanner)))
    /\ UNCHANGED <<prog, pc, stmts, ip, dist, rerr, interp, stdin, status, parser>>

\* let tokens = scanner.scan_tokens().unwrap(); let mut parser = Parser::new(&tokens);
scan_tokens_return ==
    /\ pc = "scan_tokens"
    /\ is_some(scanner)
    /\ unwrap(scanner).result # None
    /\ LET r == unwrap(unwrap(scanner).result)
       IN /\ pc' = IF r.ok THEN "parse" ELSE "panic"
          /\ parser' = IF r.ok
                       THEN Some([tokens |-> r.v, P |-> Parser_new, ok |-> TRUE,
                                  v |-> <<>>])
                       ELSE None
    /\ UNCHANGED <<prog, stmts, ip, dist, rerr, interp, stdin, status, scanner>>

parse_state(S) == [P |-> S.P, ok |-> S.ok, v |-> S.v]

\* while !self.is_at_end() { stmts.push(self.declaration()); }
parse_turn ==
    /\ pc = "parse"
    /\ is_some(parser)
    /\ LET S == unwrap(parser)
       IN /\ S.ok
          /\ ~Parser_is_at_end(S.tokens, S.P)
          /\ parser' = Some([tokens |-> S.tokens]
                            @@ parse_iteration(S.tokens, parse_state(S)))
    /\ UNCHANGED <<prog, pc, stmts, ip, dist, rerr, interp, stdin, status, scanner>>

\* Ok(stmts), unwrapped by run; a panic inside declaration() has ended run.
parse_return ==
    /\ pc = "parse"
    /\ is_some(parser)
    /\ LET S == unwrap(parser)
       IN /\ ~S.ok \/ Parser_is_at_end(S.tokens, S.P)
          /\ pc' = IF S.ok THEN "collect" ELSE "panic"
    /\ UNCHANGED <<prog, stmts, ip, dist, rerr, interp, stdin, status, scanner, parser>>

NextSyntax ==
    \/ scan_tokens_turn
    \/ scan_tokens_return
    \/ parse_turn
    \/ parse_return

SpecSyntax == InitSyntax /\ [][NextSyntax]_vars

(***************************************************************************)
(* The environments by themselves (environment.rs): a chain is built with  *)
(* Environment::new and define, and get_at and assign_at are called on its *)
(* innermost environment with every distance and name.  interp.envs is the *)
(* heap of environments, interp.environment the innermost one, and         *)
(* interp.trace holds the last call: its arguments, the heap before it and *)
(* its result.                                                             *)
(***************************************************************************)
MaxChain == 3
EnvNames == {"x", "y"}
EnvValues == {Number(1), Number(2)}
EnvToken(n) == Token("IDENTIFIER", n, 1)

InitEnvironment ==
    /\ prog = [name |-> "environment"]
    /\ pc = "environment"
    /\ stmts = <<>>
    /\ ip = 1
    /\ dist = EmptyMap
    /\ rerr = None
    /\ interp = Interpreter_default
    /\ stdin = <<>>
    /\ status = None
    /\ scanner = None
    /\ parser = None

\* Environment::new(Some(enclosing))
call_new ==
    /\ pc = "environment"
    /\ Len(interp.envs) < MaxChain
    /\ interp' = [interp EXCEPT
                    !.envs = Append(@, [values |-> EmptyMap,
                                        enclosing |-> interp.environment]),
                    !.environment = Len(interp.envs) + 1,
                    !.trace = <<>>]
    /\ UNCHANGED <<prog, pc, stmts, ip, dist, rerr, stdin, status, scanner, parser>>

call_define ==
    /\ pc = "environment"
    /\ \E n \in EnvNames, v \in EnvValues :
          interp' = [interp EXCEPT
                       !.envs = define(interp.envs, interp.environment, n, v),
                       !.trace = <<>>]
    /\ UNCHANGED <<prog, pc, stmts, ip, dist, rerr, stdin, status, scanner, parser>>

call_get_at ==
    /\ pc = "environment"
    /\ \E d \in 0..MaxChain, n \in EnvNames :
          interp' = [interp EXCEPT !.trace =
                        <<[ev |-> "get_at", distance |-> d, name |-> n,
                           before |-> interp.envs,
                           result |-> get_at(interp.envs, interp.environment, d,
                                             EnvToken(n))]>>]
    /\ UNCHANGED <<prog, pc, stmts, ip, dist, rerr, stdin, status, scanner, parser>>

call_assign_at ==
    /\ pc = "environment"
    /\ \E d \in 0..MaxChain, n \in EnvNames, v \in EnvValues :
          LET r == assign_at(interp.envs, interp.environment, d, EnvToken(n), v)
          IN  interp' = [interp EXCEPT
                           !.envs = IF r.ok THEN r.v ELSE @,
                           !.trace = <<[ev |-> "assign_at", distance |-> d,
                                        name |-> n, value |-> v,
                                        before |-> interp.envs,
                                        result |-> IF r.ok THEN Ok("unit") ELSE r]>>]
    /\ UNCHANGED <<prog, pc, stmts, ip, dist, rerr, stdin, status, scanner, parser>>

NextEnvironment ==
    \/ call_new
    \/ call_define
    \/ call_get_at
    \/ call_assign_at

SpecEnvironment == InitEnvironment /\ [][NextEnvironment]_vars

(***************************************************************************)
(* Properties                                                              *)
(***************************************************************************)
Events(kind) == {i \in 1..Len(interp.trace) : interp.trace[i].ev = kind}
Finished(name) == prog.name = name /\ pc = "done"

\* C1: every variable reference reads the environment d hops up from the
\* current one when the resolver gave it distance d, and globals when it gave
\* none, and finds the name there and not further out; a function declared in
\* a block that reads a name the block declares only later prints the global
\* value on both calls (global, global), and a block-local declared after a
\* closure was made never changes what the closure reads or writes.
C1_ResolvedBindingRead ==
    /\ \A i \in Events("lookup") :
          LET e == interp.trace[i]
          IN /\ e.from = IF is_some(e.dist)
                         THEN ancestor(interp.envs, e.environment, unwrap(e.dist))
                         ELSE interp.global
             /\ e.holder # 0 => e.holder = e.from
    /\ Finished("local_fun2") => interp.out = <<"global", "global">>
    /\ Finished("shadow_later") =>
          interp.out = <<"outer", "set", "inner", "set", "global">>

\* local_fun2 has run: both reads of a inside showA found it in globals although
\* by the second one the block's environment binds a as well.
C1_Witness ==
    /\ Finished("local_fun2")
    /\ \E i, j \in Events("lookup") :
          /\ i < j
          /\ interp.trace[i].id = interp.trace[j].id
          /\ interp.trace[i].dist = None
          /\ interp.trace[j].holder = interp.global
          /\ \E e \in 1..Len(interp.envs) :
                /\ e # interp.global
                /\ "a" \in DOMAIN interp.envs[e].values
                /\ interp.trace[j].environment # interp.global

\* The program ends normally with these lines printed.
Prints(name, lines) ==
    prog.name = name =>
        /\ pc \notin {"panic", "error_parsing", "runtime_error"}
        /\ pc = "done" => interp.out = lines

\* C2: a function value's closure is the environment that was current at its
\* declaration, every call runs in a new environment enclosed by that same
\* environment, which is still there after the call that created it has
\* returned: the counter returned by makeCounter() prints 1 then 2, and the
\* counters of two makeCounter() calls count independently (1, 2, 1, 3).
C2_ClosureByReference ==
    /\ \A i \in Events("function") :
          interp.trace[i].closure = interp.trace[i].environment
    /\ \A i \in Events("call") :
          LET e == interp.trace[i]
          IN /\ interp.envs[e.env].enclosing = e.closure
             /\ e.env # e.closure
    /\ Prints("local_fun", <<"1", "2">>)
    /\ Prints("two_counters", <<"1", "2", "1", "3">>)

\* two_counters has run: count was called through two closures, whose
\* environments are the call environments of two finished makeCounter calls and
\* hold different values of i.
C2_Witness ==
    /\ Finished("two_counters")
    /\ \E i, j \in Events("call") :
          /\ interp.trace[i].decl.lexeme = "count"
          /\ interp.trace[j].decl.lexeme = "count"
          /\ interp.trace[i].closure # interp.trace[j].closure
          /\ \E m \in Events("call") :
                /\ m < i
                /\ interp.trace[m].decl.lexeme = "makeCounter"
                /\ interp.trace[m].env = interp.trace[i].closure
          /\ interp.envs[interp.trace[i].closure].values["i"] = Number(3)
          /\ interp.envs[interp.trace[j].closure].values["i"] = Number(1)

\* C3: a return inside blocks, ifs and whiles ends the innermost call and only
\* that call: the call evaluates to the carried value (nil for a bare return
\* and for a body that runs to its end), no call and no top-level statement
\* ever ends with the Return signal, and no statement after an executed
\* return runs (return_inside prints neither "after if", "after loop" nor
\* "after return").
C3_ReturnEndsInnermostCall ==
    /\ \A i \in Events("call") :
          LET e == interp.trace[i]
          IN /\ ~e.ok => e.v.kind # "ReturnValue"
             /\ ~e.is_initializer /\ e.body.ok => e.ok /\ e.v = Nil
             /\ ~e.is_initializer /\ ~e.body.ok /\ e.body.v.kind = "ReturnValue" =>
                    e.ok /\ e.v = e.body.v.value
    /\ \A i \in Events("runtime_error") : interp.trace[i].error.kind # "ReturnValue"
    /\ Prints("return_inside",
              <<"r", "nil", "h", "nil", "1", "none", "outer", "end">>)

\* return_inside has run: inner returned from inside while and if while outer,
\* its caller, went on and returned its own value later.
C3_Witness ==
    /\ Finished("return_inside")
    /\ \E i, j \in Events("call") :
          /\ i < j
          /\ interp.trace[i].decl.lexeme = "inner"
          /\ ~interp.trace[i].body.ok
          /\ interp.trace[i].v = Number(1)
          /\ interp.trace[j].decl.lexeme = "outer"
          /\ interp.trace[j].v = String("outer")
    /\ \E i \in Events("call") :
          /\ interp.trace[i].decl.lexeme = "g"
          /\ ~interp.trace[i].body.ok
          /\ interp.trace[i].v = Nil

C5_BindFreshEnvironment ==
    /\ \A i \in Events("bind") :
          LET e == interp.trace[i]
          IN /\ e.env # e.method.closure
             /\ interp.envs[e.env].enclosing = e.method.closure
             /\ interp.envs[e.env].values = ("this" :> Instance(e.instance))
             /\ e.before = e.after
             /\ "this" \notin DOMAIN e.after.values
             /\ get_method(interp.insts[e.instance].class, e.method.decl.name.lexeme)
                    = Some(e.method)
    /\ Prints("test_this", <<"1", "2", "1">>)

\* test_this has run: bar was bound to two instances, and the call through
\* the first binding, made after the second binding, read the first instance.
C5_Witness ==
    /\ Finished("test_this")
    /\ \E i, j \in Events("bind") :
          /\ i < j
          /\ interp.trace[i].method = interp.trace[j].method
          /\ interp.trace[i].instance # interp.trace[j].instance
          /\ interp.trace[i].env # interp.trace[j].env
    /\ interp.out = <<"1", "2", "1">>

FrontEnd == {"scan_tokens", "parse", "collect", "resolve"}

\* What the resolver makes of the whole program, when all of it was parsed.
Parsed ==
    /\ prog.scan.ok
    /\ prog.parse.ok
    /\ \A i \in 1..Len(prog.parse.v) : is_some(prog.parse.v[i])
Resolved == resolve(Resolver_new, [i \in 1..Len(prog.parse.v) |-> unwrap(prog.parse.v[i])])

\* C7: the evaluator has executed something (it is at a statement, has ended,
\* or has printed, bound or logged anything) only if tokenization succeeded,
\* every declaration was parsed and the resolver found no error in the whole
\* program; otherwise the interpreter is as it was constructed.
C7_EvaluatorAfterFrontEnd ==
    (pc \in {"interpret", "runtime_error", "done"} \/ interp # Interpreter_default) =>
        /\ Parsed
        /\ ~failed(Resolved)
        /\ rerr = None

\* test_invalid_ret: the resolver rejected the return on the last line and the
\* run ended with nothing executed, although print foo(); precedes it.
C7_Witness ==
    /\ prog.name = "test_invalid_ret"
    /\ pc = "panic"
    /\ is_some(rerr)
    /\ stmts[2].k = "Print"
    /\ interp = Interpreter_default

(***************************************************************************)
(* What encloses the leaf of a program of the family, read off its shape.  *)
(***************************************************************************)
Enclosing(sh) == SubSeq(sh.path, 1, sh.depth)

RECURSIVE Innermost(_, _)
Innermost(ws, S) ==
    IF ws = <<>> THEN "none"
    ELSE IF Last(ws) \in S THEN Last(ws)
    ELSE Innermost(Front(ws), S)

FunctionKind(sh) ==
    LET w == Innermost(Enclosing(sh), {"fun", "method", "init", "submethod"})
    IN CASE w = "none" -> "None"
         [] w = "fun" -> "Function"
         [] w = "init" -> "Initializer"
         [] OTHER -> "Method"

InnermostClass(sh) == Innermost(Enclosing(sh), {"method", "init", "submethod"})

NestResolved(leaves) ==
    /\ prog.name = "nest"
    /\ pc \notin FrontEnd
    /\ unwrap(prog.shape).leaf \in leaves

ResolverError(kind) == is_some(rerr) /\ unwrap(rerr).kind = kind

\* C8: the resolver's only errors for a return are ReturnFromTopLevel, raised
\* iff no function encloses the return, and ReturnFromInitializer, raised iff
\* the return carries a value and the innermost enclosing function is init;
\* the kind that counts is the innermost one also after inner functions and
\* classes have been left (a return at top level after a function
\* declaration is rejected, one with a value in a function nested in init is
\* accepted).
C8_ReturnRejection ==
    /\ NestResolved({"return", "return_value"}) =>
          LET sh == unwrap(prog.shape)
          IN /\ ResolverError("ReturnFromTopLevel") <=> FunctionKind(sh) = "None"
             /\ ResolverError("ReturnFromInitializer") <=>
                    (sh.leaf = "return_value" /\ FunctionKind(sh) = "Initializer")
             /\ is_some(rerr) =>
                    unwrap(rerr).kind \in {"ReturnFromTopLevel", "ReturnFromInitializer"}
    /\ prog.name = "test_invalid_ret" /\ pc \notin FrontEnd =>
          ResolverError("ReturnFromTopLevel")
    /\ prog.name = "test_init2" /\ pc \notin FrontEnd =>
          ResolverError("ReturnFromInitializer")
    /\ prog.name \in {"return_inside", "init_return"} => rerr = None

\* A return at top level that follows a function declaration was rejected.
C8_Witness ==
    /\ NestResolved({"return"})
    /\ unwrap(prog.shape).path = <<"fun">>
    /\ unwrap(prog.shape).depth = 0
    /\ ResolverError("ReturnFromTopLevel")
    /\ pc = "panic"

\* C9: the resolver rejects this (InvalidThis) iff no class body encloses it,
\* also when classes were declared and left before it; this in a method, or
\* in a function nested in a method, is accepted.
C9_ThisRejection ==
    /\ NestResolved({"this"}) =>
          /\ ResolverError("InvalidThis") <=> InnermostClass(unwrap(prog.shape)) = "none"
          /\ is_some(rerr) => unwrap(rerr).kind = "InvalidThis"
    /\ prog.name \in {"this_at_top_level", "this_in_top_level_function"}
          /\ pc \notin FrontEnd => ResolverError("InvalidThis")
    /\ prog.name \in {"test_this", "test_init3"} => rerr = None

\* A this at top level that follows a class declaration was rejected.
C9_Witness ==
    /\ NestResolved({"this"})
    /\ unwrap(prog.shape).path = <<"method">>
    /\ unwrap(prog.shape).depth = 0
    /\ ResolverError("InvalidThis")
    /\ pc = "panic"

SameScope(sh) == sh.first # "none" /\ sh.place \in {"block", "function"}

DeclResolved == prog.name = "decl" /\ pc \notin FrontEnd

\* C11: declaring a name (variable, function, class or parameter) that the
\* same non-global scope already declares is the resolver error
\* AlreadyDeclared and nothing of the program is executed; a second
\* declaration at global scope, and one in an inner scope that shadows an
\* outer name, are accepted and the program runs without error.
C11_Redeclaration ==
    /\ DeclResolved =>
          LET sh == unwrap(prog.shape)
          IN /\ ResolverError("AlreadyDeclared") <=> SameScope(sh)
             /\ SameScope(sh) => pc = "panic" /\ interp = Interpreter_default
             /\ ~SameScope(sh) /\ sh.second # "var_self" =>
                    rerr = None /\ pc \notin {"panic", "runtime_error"}
    /\ prog.name = "test_decl" /\ pc \notin FrontEnd =>
          ResolverError("AlreadyDeclared") /\ pc = "panic"

\* fun f(x) { class x {} } was rejected.
C11_Witness ==
    /\ DeclResolved
    /\ unwrap(prog.shape) = [first |-> "param", second |-> "class", place |-> "function"]
    /\ ResolverError("AlreadyDeclared")
    /\ unwrap(rerr).token.line = 3
    /\ pc = "panic"

\* C12: in a non-global scope var x = x + 3; is the resolver error
\* NotInitialized, also when an enclosing scope (a local one or the global
\* one) defines x, and nothing of the program is executed; at global scope
\* the resolver accepts it.
C12_OwnInitializer ==
    /\ DeclResolved /\ unwrap(prog.shape).second = "var_self" =>
          LET sh == unwrap(prog.shape)
          IN /\ ResolverError("NotInitialized") <=>
                    (sh.place # "global" /\ ~SameScope(sh))
             /\ ResolverError("NotInitialized") =>
                    pc = "panic" /\ interp = Interpreter_default
             /\ sh.place = "global" => rerr = None
    /\ DeclResolved /\ unwrap(prog.shape).second # "var_self" =>
          ~ResolverError("NotInitialized")
    /\ prog.name = "test_blcok2" /\ pc \notin FrontEnd =>
          ResolverError("NotInitialized") /\ pc = "panic" /\ interp = Interpreter_default

\* var x = 1; { var x = x + 3; } was rejected.
C12_Witness ==
    /\ DeclResolved
    /\ unwrap(prog.shape) = [first |-> "var", second |-> "var_self", place |-> "global_inner"]
    /\ ResolverError("NotInitialized")
    /\ unwrap(rerr).token.lexeme = "x"
    /\ pc = "panic"

(***************************************************************************)
(* The arity of the callee of a program of the call family, read off the   *)
(* declarations of the program.                                            *)
(***************************************************************************)
DeclaredArity(callee) ==
    CASE callee = "f2" -> 2
      [] callee = "B" -> 1
      [] OTHER -> 0

RuntimeError(kind) ==
    /\ pc = "runtime_error"
    /\ interp.trace[Len(interp.trace)].ev = "runtime_error"
    /\ interp.trace[Len(interp.trace)].error.kind = kind

\* C13: a call with a number of arguments other than the callee's arity
\* (function: its parameters; clock: 0; class: the parameters of init, 0
\* without init) is the runtime error ArityNotMatched, carrying the arity
\* and the number given; no body is run, no instance is created and nothing
\* is printed by the call.  A call with the right number goes through.
C13_ArityNotMatched ==
    prog.name = "call" =>
       LET sh == unwrap(prog.shape)
       IN IF sh.nargs # DeclaredArity(sh.callee)
          THEN /\ Events("call") = {} /\ Events("construct") = {}
               /\ interp.insts = <<>>
               /\ \A i \in 1..Len(interp.out) : interp.out[i] = "before"
               /\ pc # "done"
               /\ pc = "runtime_error" =>
                     /\ RuntimeError("ArityNotMatched")
                     /\ interp.trace[Len(interp.trace)].error.expected
                           = DeclaredArity(sh.callee)
                     /\ interp.trace[Len(interp.trace)].error.got = sh.nargs
          ELSE /\ pc # "runtime_error"
               /\ pc = "done" =>
                     interp.out = <<"before">>
                        \o (IF sh.callee \in {"f0", "f2"} THEN <<sh.callee>>
                            ELSE IF sh.callee = "B" THEN <<"init">> ELSE <<>>)
                        \o <<"after">>

\* B(1, 2) ended in ArityNotMatched(1, 2) with no instance made.
C13_Witness ==
    /\ prog.name = "call"
    /\ unwrap(prog.shape) = [callee |-> "B", nargs |-> 2]
    /\ RuntimeError("ArityNotMatched")
    /\ interp.insts = <<>>
    /\ interp.out = <<"before">>

\* The left operand of the logical expression decides its value: a truthy
\* one for or, nil or false for and.
LeftDecides(sh) == (sh.op = "OR") <=> (sh.left \notin {"nil", "false"})

\* C14: a or b is the value of a when a is truthy and a and b is the value
\* of a when a is nil or false, and then b is not evaluated (its assignment
\* does not happen); otherwise the expression is the value of b.  The value
\* is the operand's own (0 or (..) prints 0, not true).
C14_ShortCircuit ==
    prog.name = "logical" =>
       LET sh == unwrap(prog.shape)
       IN /\ pc # "runtime_error"
          /\ pc = "done" =>
                interp.out =
                   IF LeftDecides(sh)
                   THEN <<Display(interp, Primary(sh.left)), "unset">>
                   ELSE <<Display(interp, Primary(sh.right)),
                          Display(interp, Primary(sh.right))>>
          /\ LeftDecides(sh) =>
                (pc \in {"interpret", "done"} /\ ip > 1 =>
                    interp.envs[interp.global].values["s"] = String("unset"))

\* print 0 or (s = "b"); printed 0 and left s unset.
C14_Witness ==
    /\ prog.name = "logical"
    /\ unwrap(prog.shape) = [op |-> "OR", left |-> "0", right |-> "\"b\""]
    /\ pc = "done"
    /\ interp.out = <<"0", "unset">>

\* C15: == on instances and on callables compares the identity of the
\* record: an instance equals itself, two instances of one class with the
\* same (empty) fields are unequal, two closures made by two runs of one
\* function declaration are unequal, and values of different types are
\* unequal.
C15_EqualityByIdentity ==
    Finished("equality") => interp.out = <<"true", "false", "false", "false", "false">>

\* The environments that hold name.
Holders(name) == {e \in 1..Len(interp.envs) : name \in DOMAIN interp.envs[e].values}

\* C16: x = 1 with x bound in no environment the assignment reaches (the
\* globals for an unresolved x, the chain from the resolved distance
\* otherwise) is the runtime error UndefinedVariable; no environment gets a
\* binding for x and the bindings there are keep their values.  With x
\* bound at global scope the assignment changes that binding and makes no
\* other.  A second var x at global scope replaces the value, and var x in
\* a block leaves the global x as it was.
C16_AssignUndefined ==
    /\ prog.name = "assign" =>
          LET sh == unwrap(prog.shape)
          IN /\ \A e \in Holders("y") : interp.envs[e].values["y"] = String("y")
             /\ \A e \in Holders("z") : interp.envs[e].values["z"] = String("z")
             /\ \A e \in Holders("p") : interp.envs[e].values["p"] = Number(0)
             /\ IF sh.bound
                THEN /\ pc # "runtime_error"
                     /\ pc = "done" =>
                           /\ interp.envs[interp.global].values["x"] = Number(1)
                           /\ sh.place # "own_initializer" => Holders("x") = {interp.global}
                ELSE /\ Holders("x") = {}
                     /\ pc # "done"
                     /\ pc = "runtime_error" =>
                           /\ RuntimeError("UndefinedVariable")
                           /\ interp.out = <<>>
    /\ Finished("redefine") =>
          /\ interp.out = <<"new", "inner", "new">>
          /\ interp.envs[interp.global].values["x"] = String("new")

\* x = 1 in the body of f, x bound nowhere: UndefinedVariable, and no
\* environment holds x.
C16_Witness ==
    /\ prog.name = "assign"
    /\ unwrap(prog.shape) = [place |-> "function", bound |-> FALSE]
    /\ RuntimeError("UndefinedVariable")
    /\ Events("call") # {}
    /\ Holders("x") = {}

C18_PromptContinues ==
    is_some(status) => pc = "eof" /\ stdin = <<>>

\* C19: the process that ran a file ends with status 0 when the program ran
\* to its end without error, and with another status when it had a syntax,
\* resolver or runtime error.
C19_ExitStatus ==
    is_some(status) => (unwrap(status) = 0 <=> pc = "done")

\* C20: a runtime error in a top-level statement ends the program: whatever
\* blocks, loops, conditionals, calls and constructions enclose the failing
\* statement, nothing after it is executed at any level (no "after" is ever
\* printed, no loop goes round again), the program does not reach its end,
\* and what was printed before stays.
C20_RuntimeErrorStops ==
    /\ prog.name = "raise" =>
          /\ \A i \in 1..Len(interp.out) : interp.out[i] = "before"
          /\ pc # "done"
          /\ Cardinality(Events("runtime_error")) <= 1
          /\ pc = "runtime_error" =>
                /\ interp.out = <<"before">>
                /\ RuntimeError("UndefinedVariable")
                /\ \A i \in Events("call") : ~interp.trace[i].ok
    /\ prog.name = "runtime_error" /\ pc \in {"runtime_error", "done"} =>
          /\ interp.out = <<"before">>
          /\ RuntimeError("UndefinedVariable")

\* The error came out of a loop inside a call.
C20_Witness ==
    /\ prog.name = "raise"
    /\ unwrap(prog.shape) = <<"call", "while">>
    /\ pc = "runtime_error"
    /\ interp.out = <<"before">>
    /\ Events("call") # {}

(***************************************************************************)
(* Properties of the tokenizer (SpecSyntax)                                *)
(***************************************************************************)
\* scan_tokens has returned
Scanned == is_some(scanner) /\ unwrap(scanner).result # None
Digits == {"0", "1", "2", "3", "4", "5", "6", "7", "8", "9"}
\* the characters scan_token has an arm for, a letter apart
Known ==
    Digits \cup {"(", ")", "{", "}", ",", ".", "-", "+", ";", "*", "!", "=", "<",
                 ">", "/", " ", "\r", "\t", "\n", "\"", "_"}
\* the line of the character at index i (from 1) of the source
LineOf(source, i) == 1 + Cardinality({j \in 1..(i - 1) : source[j] = "\n"})

\* C22: for every source text scan_tokens either fails, at the first
\* unterminated string or unexpected character, and returns no token
\* sequence, or returns a sequence whose last token is EOF and which has no
\* other EOF token; the empty source yields exactly [EOF].
C22_ScanTokensResult ==
    Scanned =>
       LET T == unwrap(scanner)
           r == unwrap(T.result)
           source == prog.source
       IN  IF r.ok
           THEN /\ T.current = Len(source)
                /\ r.v # <<>>
                /\ r.v[Len(r.v)].token_type = "EOF"
                /\ \A i \in 1..(Len(r.v) - 1) : r.v[i].token_type # "EOF"
                /\ source = <<>> =>
                      r.v = <<[token_type |-> "EOF", lexeme |-> "",
                               literal |-> None, line |-> 1]>>
           ELSE /\ DOMAIN r.v = {"kind", "line"}
                /\ T.current < Len(source)
                /\ \A i \in 1..Len(T.tokens) : T.tokens[i].token_type # "EOF"
                /\ \/ /\ r.v.kind = "UnterminatedString"
                      /\ source[T.current + 1] = "\""
                      /\ \A i \in (T.current + 2)..Len(source) : source[i] # "\""
                   \/ /\ r.v.kind = "UnexpectedCharacter"
                      /\ source[T.current + 1] \notin Known
                      /\ ~is_ascii_alphabetic(source[T.current + 1])

\* Several tokens and then EOF were returned.
C22_Witness ==
    /\ Scanned
    /\ unwrap(unwrap(scanner).result).ok
    /\ Len(unwrap(unwrap(scanner).result).v) >= 4

\* C23: when a string literal is still open at the end of the input,
\* tokenization fails with UnterminatedString carrying the line on which the
\* opening quote of the string stands, also when the string spans several
\* lines.
C23_UnterminatedStringLine ==
    Scanned =>
       LET T == unwrap(scanner)
           r == unwrap(T.result)
       IN  ~r.ok /\ r.v.kind = "UnterminatedString" =>
              r.v.line = LineOf(prog.source, T.current + 1)

\* C24: a number token is a maximal run of digits optionally followed by a
\* '.' and a non-empty run of digits, the '.' being consumed only when a digit
\* follows it: .1234 yields DOT then NUMBER 1234, 123. yields NUMBER 123 then
\* DOT, and 1.2.3 yields NUMBER 1.2, DOT, NUMBER 3.
C24_NumberToken ==
    /\ is_some(scanner) =>
          LET T == unwrap(scanner)
              source == prog.source
              a == T.start + 1
              b == T.current
              digit(i) == i \in 1..Len(source) /\ source[i] \in Digits
              run(i, j) == i <= j /\ \A k \in i..j : digit(k)
          IN  T.result = None /\ T.start < T.current /\ digit(a) =>
                 /\ T.tokens # <<>>
                 /\ Last(T.tokens).token_type = "NUMBER"
                 /\ Last(T.tokens).lexeme = collect(SubSeq(source, a, b))
                 /\ ~digit(b + 1)
                 /\ \/ run(a, b) /\ ~(b < Len(source) /\ source[b + 1] = "." /\ digit(b + 2))
                    \/ \E dot \in (a + 1)..(b - 1) :
                          run(a, dot - 1) /\ source[dot] = "." /\ run(dot + 1, b)
    /\ Scanned /\ prog.source = <<".", "1", "2", "3", "4">> =>
          LET tokens == unwrap(unwrap(scanner).result).v
          IN  /\ [i \in 1..Len(tokens) |-> tokens[i].token_type] = <<"DOT", "NUMBER", "EOF">>
              /\ tokens[2].literal = Some(Number(1234))
    /\ Scanned /\ prog.source = <<"1", "2", "3", ".">> =>
          LET tokens == unwrap(unwrap(scanner).result).v
          IN  /\ [i \in 1..Len(tokens) |-> tokens[i].token_type] = <<"NUMBER", "DOT", "EOF">>
              /\ tokens[1].literal = Some(Number(123))
    /\ Scanned /\ prog.source = <<"1", ".", "2", ".", "3">> =>
          LET tokens == unwrap(unwrap(scanner).result).v
          IN  /\ [i \in 1..Len(tokens) |-> tokens[i].token_type]
                    = <<"NUMBER", "DOT", "NUMBER", "EOF">>
              /\ tokens[1].lexeme = "1.2"
              /\ tokens[1].literal = Some(Number([int |-> 1, frac |-> "2"]))
              /\ tokens[3].literal = Some(Number(3))

\* 1.2.3 has been scanned.
C24_Witness ==
    /\ Scanned
    /\ prog.source = <<"1", ".", "2", ".", "3">>
    /\ unwrap(unwrap(scanner).result).ok

(***************************************************************************)
(* Properties of the parser (SpecSyntax)                                   *)
(***************************************************************************)
\* A turn of one of the two loops can be taken.
TurnEnabled ==
    \/ pc = "scan_tokens" /\ is_some(scanner) /\ unwrap(scanner).result = None
    \/ /\ pc = "parse" /\ is_some(parser) /\ unwrap(parser).ok
       /\ ~Parser_is_at_end(unwrap(parser).tokens, unwrap(parser).P)

\* SpecSyntax with every step that stays possible eventually taken: run is
\* sequential code that goes on until it returns or panics.  The last
\* conjunct is the weak fairness of the two turns, with TurnEnabled for
\* ENABLED <<scan_tokens_turn \/ parse_turn>>_vars.
SpecSyntaxFair ==
    /\ SpecSyntax
    /\ WF_vars(scan_tokens_return)
    /\ WF_vars(parse_return)
    /\ []<>(~TurnEnabled) \/ []<><<scan_tokens_turn \/ parse_turn>>_vars

\* C30: Parser::parse terminates on every token sequence that ends with EOF:
\* every turn of its loop moves the token position forward (declaration()
\* consumes a token, or fails and synchronize() consumes one), the position
\* stays on a token of the sequence, no token before the first or after the
\* last is read, and parse comes to its end.
C30_ParseTerminates ==
    /\ [][pc = "parse" /\ pc' = "parse" =>
            /\ unwrap(parser').P.current > unwrap(parser).P.current
            /\ unwrap(parser').P.current < Len(unwrap(parser).tokens)
            /\ ~unwrap(parser').P.oob]_vars
    /\ (pc = "parse") ~> (pc \in {"collect", "panic"})

\* parse has returned after a declaration that failed and was followed by
\* synchronize and by further declarations.
C30_Witness ==
    /\ pc = "collect"
    /\ Len(unwrap(parser).v) >= 3
    /\ unwrap(parser).v[1] = None
    /\ unwrap(parser).P.current = Len(unwrap(parser).tokens) - 1

\* C27: after a syntax error in any declaration, at top level or nested in a
\* block or a function body, the parser discards tokens up to the next
\* statement boundary, records a gap for the failed declaration and goes on
\* with the following declarations: parse() does not stop before the end of
\* the tokens and returns its statement list, with a gap when an error was
\* reported.
C27_ErrorRecovery ==
    is_some(parser) =>
       LET S == unwrap(parser)
       IN  /\ S.ok
           /\ pc = "collect" =>
                 /\ Parser_is_at_end(S.tokens, S.P)
                 /\ S.P.errors # <<>> => \E i \in 1..Len(S.v) : S.v[i] = None

\* parse() has returned for the source.
ParsedSource(source) == prog.source = source /\ pc = "collect"

\* C28: a call with exactly 255 arguments and a function with exactly 255
\* parameters parse without error; a 256th argument or parameter reports an
\* error but does not abort the parsing of the call or of the declaration:
\* the rest of the list and the enclosing declaration are still parsed.
C28_ArityLimit ==
    \A n \in {MaxArity, MaxArity + 1} :
       /\ ParsedSource(CallSource(n)) =>
             LET S == unwrap(parser)
             IN  /\ Len(S.P.errors) = n - MaxArity
                 /\ Len(S.v) = 2
                 /\ is_some(S.v[1])
                 /\ unwrap(S.v[1]).k = "Expression"
                 /\ unwrap(S.v[1]).expr.k = "Call"
                 /\ Len(unwrap(S.v[1]).expr.args) = n
                 /\ is_some(S.v[2])
                 /\ unwrap(S.v[2]).k = "Print"
       /\ ParsedSource(FunctionSource(n)) =>
             LET S == unwrap(parser)
             IN  /\ Len(S.P.errors) = n - MaxArity
                 /\ Len(S.v) = 2
                 /\ is_some(S.v[1])
                 /\ unwrap(S.v[1]).k = "Function"
                 /\ Len(unwrap(S.v[1]).params) = n
                 /\ Len(unwrap(S.v[1]).body) = 1
                 /\ is_some(S.v[2])
                 /\ unwrap(S.v[2]).k = "Print"

(***************************************************************************)
(* Properties of the for loop (Spec)                                       *)
(***************************************************************************)
\* C21: for (I; C; S) B has the same side effects and leaves the same
\* bindings as { I; while (C) { B; S; } }, C being true when absent and I and
\* S left out when absent, whatever of I, C and S is present; a variable
\* declared in I is not visible after the loop and does not overwrite a
\* variable of the same name outside the loop.
C21_ForDesugaring ==
    /\ prog.name = "for" =>
          /\ pc \notin {"panic", "error_parsing", "runtime_error"}
          /\ pc = "done" =>
                LET n == Len(interp.out) \div 2
                IN  /\ n >= 2
                    /\ Len(interp.out) = 2 * n
                    /\ SubSeq(interp.out, 1, n) = SubSeq(interp.out, n + 1, 2 * n)
                    /\ unwrap(prog.shape).init = "var" => interp.out[n] = "0"
                    /\ interp.environment = interp.global
    /\ prog.name = "for_scope" /\ prog.shape = Some("shadow") =>
          /\ pc \notin {"panic", "error_parsing", "runtime_error"}
          /\ pc = "done" => interp.out = <<"0", "1", "outer">>
    /\ prog.name = "for_scope" /\ prog.shape = Some("unbound") =>
          /\ pc \notin {"panic", "error_parsing", "done"}
          /\ pc = "runtime_error" =>
                interp.out = <<"0", "1">> /\ RuntimeError("UndefinedVariable")

\* Both loops of for (var i = 0; i < 2; i = i + 1) print i; have run.
C21_Witness ==
    /\ prog.name = "for"
    /\ prog.shape = Some([init |-> "var", cond |-> TRUE, incr |-> TRUE, body |-> "print"])
    /\ pc = "done"
    /\ interp.out = <<"0", "1", "0", "0", "1", "0">>

(***************************************************************************)
(* Properties of the environments (SpecEnvironment)                        *)
(***************************************************************************)
\* C26: get_at(d, name) reads, and assign_at(d, name, v) writes, the binding
\* of name held by the environment exactly d steps up the chain and no other
\* environment: when that environment has no binding for name the result is
\* an error and no further ancestor is read or modified; when the chain is
\* shorter than d the result is InvalidEnvironmentDistance.
C26_ExactDistance ==
    pc = "environment" /\ interp.trace # <<>> =>
       LET c == interp.trace[1]
           a == ancestor(c.before, interp.environment, c.distance)
           bound == c.name \in DOMAIN c.before[a].values
       IN  IF a = 0
           THEN /\ c.result = Err([kind |-> "InvalidEnvironmentDistance"])
                /\ interp.envs = c.before
           ELSE IF ~bound
           THEN /\ ~c.result.ok
                /\ interp.envs = c.before
           ELSE IF c.ev = "get_at"
           THEN /\ c.result = Ok(c.before[a].values[c.name])
                /\ interp.envs = c.before
           ELSE /\ c.result.ok
                /\ interp.envs = [c.before EXCEPT ![a].values[c.name] = c.value]

(***************************************************************************)
(* Properties of the current environment (Spec, SpecPrompt)                *)
(***************************************************************************)
\* C25: executing a block or a function body from a state whose current
\* environment is E leaves the current environment equal to E on every exit
\* path, normal completion, a Return signal and a runtime error raised at
\* any depth inside, and so does a class declaration with a superclass: a
\* statement of the program, run from the global environment, leaves the
\* global environment current however it ends.
C25_EnvironmentRestored ==
    /\ interp.environment = interp.global
    /\ pc = "interpret" /\ ip <= Len(stmts) =>
          execute(interp, stmts[ip]).I.environment = interp.environment

\* A runtime error has come out of a call inside a block.
C25_Witness ==
    /\ prog.name = "raise"
    /\ unwrap(prog.shape) = <<"block", "call">>
    /\ pc = "runtime_error"
    /\ Len(interp.envs) >= 3
    /\ interp.environment = interp.global

\* The global environment's table.
Globals == interp.envs[interp.global].values

\* C29: in REPL mode one interpreter runs all lines: every line starts with
\* the global environment as the current one, and a global variable, function
\* or class that an earlier line has defined stays bound in the later lines,
\* also when a line in between ended with a runtime error raised inside
\* nested blocks and calls.
C29_PromptKeepsGlobals ==
    /\ [](pc \in {"prompt", "scan_tokens"} => interp.environment = interp.global)
    /\ [][/\ interp'.global = interp.global
          /\ DOMAIN Globals \subseteq DOMAIN interp'.envs[interp'.global].values]_vars
    /\ [](prog.shape = Some("use") /\ "v" \in DOMAIN Globals =>
            /\ pc # "runtime_error"
            /\ {"v", "f", "K"} \subseteq DOMAIN Globals
            /\ pc = "done" =>
                  SubSeq(interp.out, Len(interp.out) - 2, Len(interp.out))
                      = <<"1", "2", "m">>)

\* The third line has used what the first defined, the second having ended
\* with a runtime error.
C29_Witness ==
    /\ prog.shape = Some("use")
    /\ pc = "done"
    /\ Events("runtime_error") # {}
    /\ SubSeq(interp.out, Len(interp.out) - 2, Len(interp.out)) = <<"1", "2", "m">>
====
